---- MODULE Spec2Model ----
(***************************************************************************)
(* Model of the tradebot execution engine (src/bot/tradebot.py and the    *)
(* helpers it imports): the fill reconciliation ledger, the crossover     *)
(* signal state machine with the Quartermaster pre-check, and the candle   *)
(* pipeline.                                                               *)
(*                                                                         *)
(* Numbers.  Quantities are whole base increments, prices and fees whole   *)
(* quote units, times whole seconds.  Cost basis and realized P&L are      *)
(* exact rationals <<n, d>> (d > 0, lowest terms): the code's weighted     *)
(* average divides, and the model keeps the exact quotient instead of a    *)
(* binary float.                                                           *)
(***************************************************************************)
EXTENDS Integers, Sequences, FiniteSets, TLC

\* ------------------------------------------------------------------ bounds
MaxSweeps == 2
MaxOrders == 3
MaxLive == 2
MaxBar == 4
MaxCloses == 5
MaxKeys == 10
MaxBatch == 3
MaxClock == 4
MaxStalls == 2
MaxWindows == 3
MaxTries == 2
MaxHardAfter == 3
MaxQueued == 3

\* --------------------------------------------------------------- rationals
Abs(x) == IF x < 0 THEN -x ELSE x
Min(a, b) == IF a <= b THEN a ELSE b
Max(a, b) == IF a >= b THEN a ELSE b

RECURSIVE GCD(_, _)
GCD(a, b) == IF b = 0 THEN a ELSE GCD(b, a % b)

Norm(n, d) ==
    LET g == GCD(Abs(n), Abs(d))
        s == IF d < 0 THEN -1 ELSE 1
    IN  IF n = 0 THEN <<0, 1>> ELSE <<(s * n) \div g, (s * d) \div g>>

R(k) == <<k, 1>>
RAdd(x, y) == Norm(x[1] * y[2] + y[1] * x[2], x[2] * y[2])
RSub(x, y) == Norm(x[1] * y[2] - y[1] * x[2], x[2] * y[2])
RMul(x, y) == Norm(x[1] * y[1], x[2] * y[2])
RDiv(x, y) == Norm(x[1] * y[2], x[2] * y[1])
RLe(x, y)  == x[1] * y[2] <= y[1] * x[2]
RLt(x, y)  == x[1] * y[2] <  y[1] * x[2]

\* ------------------------------------------------------------------- fills
Coins == {"ETH-USD"}

\* The fills the exchange can report, one per order.
F1 == [order_id |-> "o1", trade_id |-> "t1", product_id |-> "ETH-USD",
       side |-> "BUY",  size |-> 1, price |-> 100, fee |-> 1, trade_time |-> 1]
F2 == [order_id |-> "o2", trade_id |-> "t2", product_id |-> "ETH-USD",
       side |-> "SELL", size |-> 1, price |-> 110, fee |-> 1, trade_time |-> 2]
F3 == [order_id |-> "o3", trade_id |-> "t3", product_id |-> "ETH-USD",
       side |-> "BUY",  size |-> 2, price |-> 110, fee |-> 2, trade_time |-> 3]
F4 == [order_id |-> "o4", trade_id |-> "t4", product_id |-> "ETH-USD",
       side |-> "SELL", size |-> 2, price |-> 90,  fee |-> 1, trade_time |-> 4]
AllFills == {F1, F2, F3, F4}
Fills == {f \in AllFills : f.trade_time <= MaxOrders}
OrderIds == {f.order_id : f \in Fills}
FillsOf(oid) == {f \in Fills : f.order_id = oid}
OrderSide(oid) == (CHOOSE f \in Fills : f.order_id = oid).side

_fill_fingerprint(f) ==
    <<f.order_id, f.trade_id, f.product_id, f.size, f.price, f.fee, f.side>>

\* Oldest to newest (list.sort on trade_time).
RECURSIVE SortByTime(_)
SortByTime(S) ==
    IF S = {} THEN <<>>
    ELSE LET f == CHOOSE x \in S : \A y \in S : x.trade_time <= y.trade_time
         IN  <<f>> \o SortByTime(S \ {f})

SeqToSet(s) == {s[i] : i \in 1..Len(s)}


\* ------------------------------------------------------------ configuration
usd_per_order == 300
daily_spend_cap_usd == 600
per_coin_cooldown_s == 1
maker_offset_bps == 5
price_inc == 1
base_inc == 1
min_market_base_size == 2
full_exit_shave_increments == 1
DustSuppressS == 1
processed_fills_max_default == 10000
confirm_default == 3
SmallIndex == 2
min_candles == 2
CountCap == 32
QmThrottleS == 60
RestWindow == 5
hard_stop_bps == 100
take_profit_bps == 600
stagnation_close_bps == 200
ema_deadband_bps == 6
max_hold_hours == 24
flat_macd_abs_max == 40
MaxConfirm == 3
MaxTime == 2
MaxClamp == 4
dry_run == FALSE
enable_advisors == TRUE
reconcile_on_sell_attempt == TRUE
quartermaster_respect_macd == TRUE

\* ------------------------------------------------------------------- state
VARIABLES
    positions,          \* coin -> held quantity (self.positions)
    cost_basis,         \* coin -> weighted-average cost (self.cost_basis)
    realized_pnl,       \* running total (self.realized_pnl)
    processed,          \* ProcessedFills.idx: fingerprints in insertion order
    processed_fills_max,\* cfg.processed_fills_max
    intent,             \* order ids with a recorded intent (self._intent)
    spend,              \* SpendTracker: today's recorded BUY spend
    last_trade,         \* LastTradeTracker: coin -> stamp (0: none)
    qm_dust_until,      \* coin -> _qm_dust_suppress_until
    qm_last_ts,         \* coin -> _qm_last_ts
    now,                \* time.time()
    lock,               \* owner of _state_lock: "free", "candle", "reconcile"
    cpc, cctx,          \* candle/stream thread: position and locals
    rpc, rctx,          \* reconcile sweep: position and locals
    reconciling,        \* self._reconciling
    sweeps,             \* completed reconciliation sweeps
    exchange,           \* fills the exchange has executed so far
    submitted,          \* order ids the exchange has accepted
    live,               \* coin -> live available balance at the exchange
    applied,            \* history: fill -> times its effect was applied in this run
    opening,            \* history: coin -> quantity held when the run started
    prior,              \* history: fills ingested by earlier runs (in processed at start)
    primed, trend, pending,   \* _primed, _trend, _pending per product
    candle_mode,        \* self.candle_mode: "ws" or "local"
    confirm_candles,    \* cfg.confirm_candles (read at every evaluation)
    ticks,              \* coin -> closed candles seen, counted up to min_candles
    stop_requested,     \* self.stop_requested
    autotuned,          \* the one-shot elapsed AutoTune refresh has run
    ev,                 \* history: the latest evaluate_signal call
    run,                \* history: the current run of Above evaluations
    wall,               \* the bar the wall clock is in (time.time() // granularity)
    last_candle_start,  \* self._last_candle_start per product, 0 for None
    builder_start,      \* self._builders[pid].start, 0 for None
    local_settle_q,     \* self._local_settle_q: bar starts waiting for release
    closes,             \* history: coin -> bar starts handed to _on_candle_close
    arg,                \* the arguments of the latest call of a pure function
    res,                \* what that call returned
    prefer_maker,       \* cfg.prefer_maker
    prefer_maker_for_sells, \* cfg.prefer_maker_for_sells
    answers,            \* the answers the exchange may give to a submission
    warmup,             \* the constructor's warm-up step: "due" or "done"
    seeded,             \* history: coin -> bars _backfill_seed_indicators fed
    shutdown_once,      \* main.py: _shutdown_once.is_set()
    session_footer_written, \* self.session_footer_written
    spc,                \* context -> position in _request_shutdown
    ran,               \* history: the shutdown steps run, in order
    exited,             \* os._exit has ended the process
    last_msg_ts,        \* self._last_msg_ts
    last_candle_close_ts,   \* product -> self._last_candle_close_ts
    stall_grace_until,  \* product -> self._stall_grace_until
    consecutive_stall_windows,  \* self._consecutive_stall_windows
    last_stall_action_ts,   \* self._last_stall_action_ts
    stall_total,        \* self._stall_total
    reconnect_tries,    \* self._reconnect_tries
    idle_reconnects,    \* self._idle_reconnects
    wpc,                \* context -> position in _maybe_warn_and_recover_idle
    idle_rc_ts,         \* history: when the last idle reconnect was made, 0 for none
    wd,                 \* history: the latest candle-stall check
    stall_hard_reconnect_after, \* cfg.stall_hard_reconnect_after
    stall_flip_to_local_after,  \* cfg.stall_flip_to_local_after
    ws_idle_flip_to_local_after, \* cfg.ws_idle_flip_to_local_after
    builders,           \* product -> self._builders[pid].start, -1 for None
    settle_q,           \* self._local_settle_q with the release times
    handed,             \* history: the queued closes handed to _on_candle_close
    fpc,                \* caller -> position in reconcile_now
    frame,              \* the candles left of the message on_ws_message is handling
    bpc,                \* thread -> its BUY between the daily-cap gate and the spend record
    stamps,             \* product -> LastTradeTracker stamp, 0 for none
    kctx,               \* the process: its position in a sweep, the fills left, restarts
    saved,              \* portfolio.json, with the fills whose effect it holds
    hpc                 \* the caller of _on_candle_close: "idle", or "in" past its stop test

ledgerVars == <<positions, cost_basis, realized_pnl, processed, processed_fills_max>>
orderVars  == <<intent, spend, last_trade, qm_dust_until, qm_last_ts>>
candleThr  == <<cpc, cctx>>
reconThr   == <<rpc, rctx, reconciling, sweeps>>
envVars    == <<exchange, submitted, live, now>>
histVars   == <<applied, opening, prior, ev, run>>
sigVars    == <<primed, trend, pending, candle_mode, confirm_candles, ticks,
               stop_requested, autotuned>>
pipeVars   == <<wall, last_candle_start, builder_start, local_settle_q, closes>>
probeVars  == <<arg, res>>
bootVars   == <<warmup, seeded>>
tradeCfg   == <<prefer_maker, prefer_maker_for_sells, answers>>
shutVars   == <<shutdown_once, session_footer_written, spc, ran, exited>>
stallVars  == <<last_candle_close_ts, stall_grace_until,
                 consecutive_stall_windows, last_stall_action_ts, stall_total, wd>>
idleVars   == <<last_msg_ts, reconnect_tries, idle_reconnects, wpc, idle_rc_ts>>
wdCfg      == <<stall_hard_reconnect_after, stall_flip_to_local_after,
                 ws_idle_flip_to_local_after>>
settleVars == <<builders, settle_q, handed>>
flightVars == <<fpc>>
frameVars  == <<frame>>
capVars    == <<bpc, stamps>>
diskVars   == <<kctx, saved>>
callVars   == <<hpc>>
cfgVars    == <<tradeCfg, bootVars, shutVars, stallVars, idleVars, wdCfg, settleVars,
                flightVars, frameVars, capVars, diskVars, callVars>>

\* ----------------------------------------------------------------- ledger
Ledger == [positions |-> positions, cost_basis |-> cost_basis,
           realized_pnl |-> realized_pnl]

\* A BUY total that forgets the fee (mutant of ImmediateNewCost).
NewCostNoFee(cb, qty, f) == RAdd(RMul(cb, R(qty)), R(f.size * f.price))

\* place_order: new_cost of a BUY fill.
ImmediateNewCost(cb, qty, f) ==
    RAdd(RMul(cb, R(qty)), R(f.size * f.price + f.fee))

\* A SELL that books the whole fill whatever is held (mutant of ReconcileSellQty).
SellWholeFill(size, qty_before) == size

\* reconcile_recent_fills: sell_qty of a SELL fill.
ReconcileSellQty(size, qty_before) == Min(size, qty_before)

\* place_order, immediate fills: the BUY / SELL branches.
ImmediateApply(L, f) ==
    LET pid == f.product_id
        qty_before == L.positions[pid]
    IN  IF f.side = "BUY" THEN
            LET new_qty == qty_before + f.size
                new_cost == ImmediateNewCost(L.cost_basis[pid], L.positions[pid], f)
            IN  IF new_qty > 0
                THEN [L EXCEPT !.positions[pid] = new_qty,
                               !.cost_basis[pid] = RDiv(new_cost, R(new_qty))]
                ELSE L
        ELSE IF f.side = "SELL" THEN
            LET sell_qty == Min(f.size, qty_before)
                pos_after == Max(0, qty_before - sell_qty)
            IN  [L EXCEPT
                   !.realized_pnl =
                       RSub(RAdd(@, RMul(R(sell_qty),
                                         RSub(R(f.price), L.cost_basis[pid]))),
                            R(f.fee)),
                   !.positions[pid] = pos_after,
                   !.cost_basis[pid] = IF pos_after = 0 THEN R(0) ELSE @]
        ELSE L

\* reconcile_recent_fills: the BUY / SELL branches.
ReconcileApply(L, f) ==
    LET pid == f.product_id
        qty_before == L.positions[pid]
    IN  IF f.side = "BUY" THEN
            LET new_qty == qty_before + f.size
                new_cost == RAdd(RMul(L.cost_basis[pid], R(qty_before)),
                                 R(f.size * f.price + f.fee))
            IN  IF new_qty > 0
                THEN [L EXCEPT !.positions[pid] = new_qty,
                               !.cost_basis[pid] = RDiv(new_cost, R(new_qty))]
                ELSE L
        ELSE
            LET sell_qty == ReconcileSellQty(f.size, qty_before)
                pnl_add == RSub(RMul(R(sell_qty),
                                     RSub(R(f.price), L.cost_basis[pid])),
                                R(f.fee))
                pos_after == Max(0, qty_before - sell_qty)
            IN  [L EXCEPT
                   !.realized_pnl = RAdd(@, pnl_add),
                   !.positions[pid] = pos_after,
                   !.cost_basis[pid] = IF pos_after = 0 THEN R(0) ELSE @]

\* ProcessedFills
Has(idx, fp) == fp \in SeqToSet(idx)
Add(idx, fp) == IF Has(idx, fp) THEN idx ELSE Append(idx, fp)
Prune(idx, max_keys) ==
    IF Len(idx) <= max_keys THEN idx
    ELSE LET drop_n == Max(1, max_keys \div 5)
         IN  SubSeq(idx, Min(drop_n, Len(idx)) + 1, Len(idx))

\* Startup clamp of the loaded position to the live available balance.
StartupClamp(cache, lv) ==
    IF lv >= 0
    THEN IF cache <= 0 /\ lv > 0 THEN lv ELSE Min(cache, lv)
    ELSE cache


\* ------------------------------------------------------------ order sizing
\* orders.py, in whole increments (price_inc = base_inc = 1), where the
\* floats are whole numbers and exact; float_round_down_to_inc below is the
\* evaluation on floats of decimal prices.
round_down_to_inc(value10k, inc) ==
    IF inc <= 0 THEN value10k \div 10000
    ELSE ((value10k \div 10000) \div inc) * inc
round_up_to_inc(value10k, inc) ==
    IF inc <= 0 THEN value10k \div 10000
    ELSE LET steps == (value10k \div 10000) \div inc
         IN  IF steps * inc * 10000 < value10k THEN (steps + 1) * inc
             ELSE steps * inc

\* compute_maker_limit with an empty quote cache (ref = last_price):
\* <<limit_price, base_size>>.
compute_maker_limit(side, last_price) ==
    LET limit_price ==
            IF side = "BUY"
            THEN round_down_to_inc(last_price * (10000 - maker_offset_bps), price_inc)
            ELSE round_up_to_inc(last_price * (10000 + maker_offset_bps), price_inc)
        base_size ==
            IF limit_price > 0
            THEN ((Max(0, usd_per_order \div limit_price)) \div base_inc) * base_inc
            ELSE 0
    IN  <<limit_price, base_size>>

\* place_order, maker branch, SELL: what the clamp makes of the base size
\* compute_maker_limit returned; -1 when the order is skipped with the
\* dust-suppression window set.
MakerSellClamp(base_size, position, live_avail) ==
    LET held == Max(0, position)
        clamped == (Max(0, Min(Min(base_size, held), live_avail)) \div base_inc) * base_inc
        raised == (Min(held, Max(clamped, min_market_base_size)) \div base_inc) * base_inc
    IN  IF min_market_base_size > 0 /\ clamped < min_market_base_size
        THEN IF held >= min_market_base_size THEN raised ELSE -1
        ELSE clamped

\* place_order, maker branch: the base size to submit, 0 when the order is
\* skipped and -1 when it is skipped with the dust-suppression window set.
MakerSize(c, side, last_price) ==
    LET lim == compute_maker_limit(side, last_price)
        sz == IF side = "BUY" THEN lim[2]
              ELSE MakerSellClamp(lim[2], positions[c], live[c])
    IN  IF sz = -1 THEN -1
        ELSE IF sz <= 0 \/ lim[1] <= 0 THEN 0
        ELSE sz

\* _submit_market_order, SELL branch: same result convention.
MarketSellSize(c, quote_usd, last_price) ==
    LET held == Min(Max(0, positions[c]), live[c])
        intended == IF last_price > 0 THEN quote_usd \div last_price ELSE held
        base0 == Min(held, intended)
        shaved == IF full_exit_shave_increments > 0
                     /\ held >= (full_exit_shave_increments + 1) * base_inc
                     /\ Abs(base0 - held) <= 2 * base_inc
                  THEN Max(base_inc, held - full_exit_shave_increments * base_inc)
                  ELSE base0
    IN  IF held < base_inc THEN 0
        ELSE IF shaved < base_inc THEN -1
        ELSE IF min_market_base_size > 0 /\ shaved < min_market_base_size
             THEN IF held >= min_market_base_size
                  THEN Min(held, Max(shaved, min_market_base_size))
                  ELSE -1
        ELSE shaved

\* place_order: maker or market route.
UseMaker(side, reason) ==
    IF side = "SELL" /\ reason \in {"take_profit", "stagnation", "stop_loss"}
    THEN FALSE
    ELSE IF side = "SELL" THEN prefer_maker_for_sells ELSE prefer_maker

\* place_order calls compute_maker_limit with the keyword coin_id, and
\* orders.py names that parameter product_id: the call raises TypeError
\* before anything is sized or submitted, and evaluate_signal logs it.
MakerCallRaises == TRUE

OrderSize(c, side, quote_usd, last_price, reason) ==
    IF UseMaker(side, reason)
    THEN IF MakerCallRaises THEN 0 ELSE MakerSize(c, side, last_price)
    ELSE IF side = "BUY" THEN quote_usd
    ELSE MarketSellSize(c, quote_usd, last_price)

\* The exchange never executes more than the order asked for: base size for
\* limit orders and market SELLs, quote size for market BUYs.
Fits(f, side, reason, sz) ==
    IF UseMaker(side, reason) \/ side = "SELL" THEN f.size <= sz
    ELSE f.size * f.price <= sz


\* --------------------------------------------------- candle thread: orders
NoCall == [coin |-> "", side |-> "", quote |-> 0, price |-> 0, reason |-> "",
           caller |-> "", now_ts |-> 0, allow |-> FALSE, oid |-> "",
           page |-> <<>>, any_new |-> FALSE, ok |-> ""]

\* The locals still live once the order has been sized and sent.
Done(call) == [NoCall EXCEPT !.coin = call.coin, !.caller = call.caller,
                             !.now_ts = call.now_ts]

LastOk(c) == last_trade[c] = 0 \/ now - last_trade[c] >= per_coin_cooldown_s

\* An exchange answer as _resp_ok reads it (resp.to_dict() or the dict):
\* each key absent, present but empty (falsy), or carrying something.
Responses ==
    [success : {"absent", "true", "false"},
     error_response : {"absent", "empty", "error", "insufficient"},
     success_response : {"absent", "empty", "order"},
     order_id : {"absent", "empty", "id"}]

Accepted == [success |-> "true", error_response |-> "absent",
             success_response |-> "order", order_id |-> "absent"]
Rejected == [success |-> "false", error_response |-> "error",
             success_response |-> "absent", order_id |-> "absent"]
NoFunds  == [success |-> "false", error_response |-> "insufficient",
             success_response |-> "absent", order_id |-> "absent"]
TypicalAnswers == {Accepted, Rejected, NoFunds}

\* Python truth of body.get(key)
Truthy(x) == x \notin {"absent", "empty"}

\* A judgement that takes every answer without an explicit failure for a
\* success (mutant of _resp_ok).
RespOkUnlessFailure(resp) ==
    resp.success # "false" /\ ~Truthy(resp.error_response)

_resp_ok(resp) ==
    IF resp.success = "false" THEN FALSE
    ELSE IF Truthy(resp.error_response) THEN FALSE
    ELSE IF Truthy(resp.success_response) \/ Truthy(resp.order_id)
            \/ resp.success = "true" THEN TRUE
    ELSE FALSE

\* _submit_market_order: the insufficient-funds answer throttles the
\* Quartermaster.
Insufficient(resp) ==
    resp.success = "false" /\ resp.error_response = "insufficient"

\* place_order: order_id = success_response.order_id or body.order_id
CarriesOrderId(resp) == resp.success_response = "order" \/ Truthy(resp.order_id)

\* A place_order that records the spend and the cooldown stamp before it
\* looks at the answer (mutant of PlaceOrderSubmit).
PlaceOrderSubmitStampsFailure ==
    /\ cpc = "place"
    /\ LET c == cctx.coin
           sz == OrderSize(c, cctx.side, cctx.quote, cctx.price, cctx.reason)
       IN  IF dry_run THEN
               /\ spend' = IF cctx.side = "BUY" THEN spend + cctx.quote ELSE spend
               /\ last_trade' = [last_trade EXCEPT ![c] = now]
               /\ cpc' = "ret"
               /\ cctx' = Done(cctx)
               /\ UNCHANGED <<qm_dust_until, qm_last_ts, intent, exchange, submitted>>
           ELSE IF sz <= 0 THEN
               /\ qm_dust_until' = IF sz = -1
                                   THEN [qm_dust_until EXCEPT ![c] = now + DustSuppressS]
                                   ELSE qm_dust_until
               /\ cpc' = "ret"
               /\ cctx' = Done(cctx)
               /\ UNCHANGED <<spend, last_trade, qm_last_ts, intent, exchange, submitted>>
           ELSE
               \E resp \in answers :
               IF ~_resp_ok(resp) THEN
                  /\ cpc' = "ret"
                  /\ cctx' = [Done(cctx) EXCEPT !.ok = "no"]
                  /\ qm_last_ts' = IF ~UseMaker(cctx.side, cctx.reason) /\ Insufficient(resp)
                                   THEN [qm_last_ts EXCEPT ![c] = now]
                                   ELSE qm_last_ts
                  /\ spend' = IF cctx.side = "BUY" THEN spend + cctx.quote ELSE spend
                  /\ last_trade' = [last_trade EXCEPT ![c] = now]
                  /\ UNCHANGED <<qm_dust_until, intent, exchange, submitted>>
               ELSE
                  \E oid \in OrderIds \ submitted :
                  \E done \in SUBSET FillsOf(oid) :
                     /\ OrderSide(oid) = cctx.side
                     /\ \A f \in FillsOf(oid) : Fits(f, cctx.side, cctx.reason, sz)
                     /\ submitted' = submitted \cup {oid}
                     /\ exchange' = exchange \cup done
                     /\ spend' = IF cctx.side = "BUY" THEN spend + cctx.quote ELSE spend
                     /\ last_trade' = [last_trade EXCEPT ![c] = now]
                     /\ IF CarriesOrderId(resp)
                        THEN /\ intent' = intent \cup {oid}
                             /\ cctx' = [Done(cctx) EXCEPT !.oid = oid, !.ok = "yes"]
                             /\ cpc' = "fetch"
                        ELSE /\ intent' = intent \cup {"None"}
                             /\ cctx' = [Done(cctx) EXCEPT !.ok = "yes"]
                             /\ cpc' = "ret"
                     /\ UNCHANGED <<qm_dust_until, qm_last_ts>>
    /\ UNCHANGED <<ledgerVars, lock, reconThr, live, now, histVars,
                   sigVars, pipeVars, probeVars, cfgVars>>

\* place_order up to the exchange's answer: sizing, submission, spend and
\* cooldown stamps, intent.  The exchange answers; on an answer judged a
\* success the order exists there (and may have executed at once).
PlaceOrderSubmit ==
    /\ cpc = "place"
    /\ LET c == cctx.coin
           sz == OrderSize(c, cctx.side, cctx.quote, cctx.price, cctx.reason)
       IN  IF dry_run THEN
               /\ spend' = IF cctx.side = "BUY" THEN spend + cctx.quote ELSE spend
               /\ last_trade' = [last_trade EXCEPT ![c] = now]
               /\ cpc' = "ret"
               /\ cctx' = Done(cctx)
               /\ UNCHANGED <<qm_dust_until, qm_last_ts, intent, exchange, submitted>>
           ELSE IF sz <= 0 THEN
               /\ qm_dust_until' = IF sz = -1
                                   THEN [qm_dust_until EXCEPT ![c] = now + DustSuppressS]
                                   ELSE qm_dust_until
               /\ cpc' = "ret"
               /\ cctx' = Done(cctx)
               /\ UNCHANGED <<spend, last_trade, qm_last_ts, intent, exchange, submitted>>
           ELSE
               \E resp \in answers :
               IF ~_resp_ok(resp) THEN
                  /\ cpc' = "ret"
                  /\ cctx' = [Done(cctx) EXCEPT !.ok = "no"]
                  /\ qm_last_ts' = IF ~UseMaker(cctx.side, cctx.reason) /\ Insufficient(resp)
                                   THEN [qm_last_ts EXCEPT ![c] = now]
                                   ELSE qm_last_ts
                  /\ UNCHANGED <<spend, last_trade, qm_dust_until, intent,
                                 exchange, submitted>>
               ELSE
                  \E oid \in OrderIds \ submitted :
                  \E done \in SUBSET FillsOf(oid) :
                     /\ OrderSide(oid) = cctx.side
                     /\ \A f \in FillsOf(oid) : Fits(f, cctx.side, cctx.reason, sz)
                     /\ submitted' = submitted \cup {oid}
                     /\ exchange' = exchange \cup done
                     /\ spend' = IF cctx.side = "BUY" THEN spend + cctx.quote ELSE spend
                     /\ last_trade' = [last_trade EXCEPT ![c] = now]
                     /\ IF CarriesOrderId(resp)
                        THEN /\ intent' = intent \cup {oid}
                             /\ cctx' = [Done(cctx) EXCEPT !.oid = oid, !.ok = "yes"]
                             /\ cpc' = "fetch"
                        ELSE /\ intent' = intent \cup {"None"}
                             /\ cctx' = [Done(cctx) EXCEPT !.ok = "yes"]
                             /\ cpc' = "ret"
                     /\ UNCHANGED <<qm_dust_until, qm_last_ts>>
    /\ UNCHANGED <<ledgerVars, lock, reconThr, live, now, histVars,
                   sigVars, pipeVars, probeVars, cfgVars>>

\* A place_order that takes _state_lock before it asks for the fills
\* (mutant of PlaceOrderFetch).
PlaceOrderFetchLocked ==
    /\ cpc = "fetch"
    /\ lock = "free"
    /\ lock' = "candle"
    /\ cctx' = [cctx EXCEPT !.page = SortByTime(exchange \cap FillsOf(cctx.oid)),
                            !.any_new = FALSE]
    /\ cpc' = "ingest"
    /\ UNCHANGED <<ledgerVars, orderVars, reconThr, envVars, histVars,
                   sigVars, pipeVars, probeVars, cfgVars>>

\* place_order: fetch the fills of the order (network), oldest first.
PlaceOrderFetch ==
    /\ cpc = "fetch"
    /\ cctx' = [cctx EXCEPT !.page = SortByTime(exchange \cap FillsOf(cctx.oid)),
                            !.any_new = FALSE]
    /\ cpc' = "lock"
    /\ UNCHANGED <<ledgerVars, orderVars, lock, reconThr, envVars, histVars,
                   sigVars, pipeVars, probeVars, cfgVars>>

PlaceOrderLock ==
    /\ cpc = "lock"
    /\ lock = "free"
    /\ lock' = "candle"
    /\ cpc' = "ingest"
    /\ UNCHANGED <<ledgerVars, orderVars, cctx, reconThr, envVars, histVars,
                   sigVars, pipeVars, probeVars, cfgVars>>

\* place_order: one turn of the per-fill loop, under _state_lock; the lock
\* is released when the page is exhausted.
PlaceOrderIngest ==
    /\ cpc = "ingest"
    /\ IF cctx.page = <<>> THEN
           /\ lock' = "free"
           /\ cpc' = IF cctx.any_new THEN "prune" ELSE "ret"
           /\ UNCHANGED <<ledgerVars, cctx, applied>>
       ELSE
           LET f == Head(cctx.page)
               fp == _fill_fingerprint(f)
           IN  IF Has(processed, fp) THEN
                   /\ cctx' = [cctx EXCEPT !.page = Tail(@)]
                   /\ UNCHANGED <<ledgerVars, lock, cpc, applied>>
               ELSE
                   LET L == ImmediateApply(Ledger, f)
                   IN  /\ positions' = L.positions
                       /\ cost_basis' = L.cost_basis
                       /\ realized_pnl' = L.realized_pnl
                       /\ processed' = Add(processed, fp)
                       /\ applied' = [applied EXCEPT ![f] = @ + 1]
                       /\ cctx' = [cctx EXCEPT !.page = Tail(@), !.any_new = TRUE]
                       /\ UNCHANGED <<processed_fills_max, lock, cpc>>
    /\ UNCHANGED <<orderVars, reconThr, envVars, opening, prior, ev, run, sigVars,
                   pipeVars, probeVars, cfgVars>>

\* place_order: prune and save after new fills.
PlaceOrderPrune ==
    /\ cpc = "prune"
    /\ processed' = Prune(processed, processed_fills_max)
    /\ cpc' = "ret"
    /\ UNCHANGED <<positions, cost_basis, realized_pnl, processed_fills_max,
                   orderVars, cctx, lock, reconThr, envVars, histVars,
                   sigVars, pipeVars, probeVars, cfgVars>>

\* Back in the caller: _on_candle_close stamps the Quartermaster rate limit
\* after its place_order call; evaluate_signal just returns.
PlaceOrderReturn ==
    /\ cpc = "ret"
    /\ qm_last_ts' = IF cctx.caller = "qm"
                     THEN [qm_last_ts EXCEPT ![cctx.coin] = cctx.now_ts]
                     ELSE qm_last_ts
    /\ cpc' = "idle"
    /\ cctx' = NoCall
    /\ UNCHANGED <<ledgerVars, intent, spend, last_trade, qm_dust_until, lock,
                   reconThr, envVars, histVars,
                   sigVars, pipeVars, probeVars, cfgVars>>

\* ------------------------------------------------------- reconcile sweep
NoSweep == [fills |-> <<>>, changed |-> FALSE, caller |-> ""]

\* reconcile_now: single-flight entry.  A caller that finds a sweep running
\* returns at once (ReconcileNowBusy is used by the synchronous caller).
ReconcileNowBegin(who) ==
    /\ rpc = "idle"
    /\ ~reconciling
    /\ reconciling' = TRUE
    /\ rctx' = [NoSweep EXCEPT !.caller = who]
    /\ rpc' = "fetch"
    /\ UNCHANGED sweeps

\* main.py, _periodic_reconcile: the background thread starts a sweep.
PeriodicReconcile ==
    /\ sweeps < MaxSweeps
    /\ ReconcileNowBegin("periodic")
    /\ UNCHANGED <<ledgerVars, orderVars, lock, candleThr, envVars, histVars,
                   sigVars, pipeVars, probeVars, cfgVars>>

\* reconcile_recent_fills: page through the fills in the lookback window
\* (network), sort oldest to newest.
ReconcileFetch ==
    /\ rpc = "fetch"
    /\ \/ rctx' = [rctx EXCEPT !.fills = SortByTime(exchange)]
       \/ rctx' = [rctx EXCEPT !.fills = <<>>]       \* the fetch failed
    /\ rpc' = "check"
    /\ UNCHANGED <<ledgerVars, orderVars, lock, candleThr, reconciling, sweeps,
                   envVars, histVars, sigVars, pipeVars, probeVars, cfgVars>>

\* reconcile_recent_fills: top of the per-fill loop.  The fingerprint is
\* looked up BEFORE _state_lock is taken.
ReconcileCheck ==
    /\ rpc = "check"
    /\ IF rctx.fills = <<>> THEN
           /\ rpc' = "finish"
           /\ UNCHANGED rctx
       ELSE IF Has(processed, _fill_fingerprint(Head(rctx.fills))) THEN
           /\ rctx' = [rctx EXCEPT !.fills = Tail(@)]
           /\ UNCHANGED rpc
       ELSE
           /\ rpc' = "apply"
           /\ UNCHANGED rctx
    /\ UNCHANGED <<ledgerVars, orderVars, lock, candleThr, reconciling, sweeps,
                   envVars, histVars, sigVars, pipeVars, probeVars, cfgVars>>

\* reconcile_recent_fills: the `with self._state_lock` block for one fill
\* (acquire, apply, add the fingerprint, release).
ReconcileIngest ==
    /\ rpc = "apply"
    /\ lock = "free"
    /\ LET f == Head(rctx.fills)
           L == ReconcileApply(Ledger, f)
       IN  /\ positions' = L.positions
           /\ cost_basis' = L.cost_basis
           /\ realized_pnl' = L.realized_pnl
           /\ processed' = Add(processed, _fill_fingerprint(f))
           /\ applied' = [applied EXCEPT ![f] = @ + 1]
           /\ rctx' = [rctx EXCEPT !.fills = Tail(@), !.changed = TRUE]
    /\ rpc' = "check"
    /\ UNCHANGED <<processed_fills_max, orderVars, lock, candleThr, reconciling,
                   sweeps, envVars, opening, prior, ev, run, sigVars, pipeVars, probeVars, cfgVars>>

\* reconcile_recent_fills: prune and save when anything changed; then
\* reconcile_now clears the flag.  A synchronous caller resumes.
ReconcileFinish ==
    /\ rpc = "finish"
    /\ rctx.changed => lock = "free"
    /\ processed' = IF rctx.changed THEN Prune(processed, processed_fills_max)
                    ELSE processed
    /\ reconciling' = FALSE
    /\ sweeps' = IF rctx.caller = "periodic" THEN sweeps + 1 ELSE sweeps
    /\ rctx' = NoSweep
    /\ rpc' = "idle"
    /\ cpc' = IF rctx.caller = "candle" THEN "gate" ELSE cpc
    /\ UNCHANGED <<positions, cost_basis, realized_pnl, processed_fills_max,
                   orderVars, lock, cctx, envVars, histVars, sigVars, pipeVars, probeVars, cfgVars>>

\* The exchange executes a resting order.
ExchangeFill ==
    /\ \E f \in Fills \ exchange :
          /\ f.order_id \in submitted
          /\ exchange' = exchange \cup {f}
    /\ UNCHANGED <<ledgerVars, orderVars, lock, candleThr, reconThr, submitted,
                   live, now, histVars, sigVars, pipeVars, probeVars, cfgVars>>

\* ----------------------------------------------------------------- signal
ZeroPending == [rel |-> 0, count |-> 0, band_grace |-> 0]
NoEval == [tick |-> 0, coin |-> "", rel |-> 0, signal |-> 0]
NoRun == [n |-> 0, fresh |-> TRUE, buy |-> FALSE, steady |-> TRUE, ended |-> 0]

\* evaluate_signal: short EMA against long EMA with the dead-band.
Rel(sEma, lEma) ==
    IF sEma * 10000 > lEma * (10000 + ema_deadband_bps) THEN 1
    ELSE IF sEma * 10000 < lEma * (10000 - ema_deadband_bps) THEN -1
    ELSE 0

\* <<short, long>> EMA readings: above the band, inside it, below it.
EMAPairs == {<<10010, 10000>>, <<10005, 10000>>, <<9990, 10000>>}

\* A count that carries over a change of direction (mutant of CountNext).
CountAnyDirection(st, rel) ==
    [rel |-> rel, count |-> Min(st.count + 1, CountCap), band_grace |-> 0]

\* evaluate_signal: the pending counter after a directional candle.
CountNext(st, rel) ==
    IF st.rel # rel
    THEN [rel |-> rel, count |-> Min(1, CountCap), band_grace |-> 0]
    ELSE [rel |-> rel, count |-> Min(st.count + 1, CountCap), band_grace |-> 0]

\* A grace candle granted in either candle mode (mutant of InBandNext).
InBandGraceAnyMode(st, local_mode) ==
    IF st.rel # 0 /\ st.band_grace = 0
    THEN [st EXCEPT !.band_grace = 1] ELSE ZeroPending

\* evaluate_signal, `if rel == 0`: the pending state after an in-band candle.
InBandNext(st, local_mode) ==
    IF local_mode /\ st.rel # 0 /\ st.band_grace = 0
    THEN [st EXCEPT !.band_grace = 1] ELSE ZeroPending

\* A confirmation one candle early (mutant of Confirmed).
ConfirmedEarly(count, need) == ~(count + 1 < need)

\* evaluate_signal: `if st["count"] < need: return`.
Confirmed(count, need) == ~(count < need)

\* A first call that is not recognised (mutant of IsFirstCall).
NeverFirstCall(c) == FALSE

\* evaluate_signal: `if coin_id not in self._primed`.
IsFirstCall(c) == ~primed[c]

\* A confirmed cross that is handed on without being recorded as the trend
\* (mutant of SignalStep).
SignalStepTrendKept(c, rel) ==
    LET same == [p |-> primed[c], t |-> trend[c], st |-> pending[c], signal |-> 0]
        st == CountNext(pending[c], rel)
        need == Max(1, confirm_candles)
    IN  IF stop_requested THEN same
        ELSE IF IsFirstCall(c) THEN [same EXCEPT !.p = TRUE, !.t = rel]
        ELSE IF rel = 0
        THEN [same EXCEPT !.st = InBandNext(pending[c], candle_mode = "local")]
        ELSE IF ~Confirmed(st.count, need) THEN [same EXCEPT !.st = st]
        ELSE IF rel = trend[c] THEN [same EXCEPT !.st = ZeroPending]
        ELSE [same EXCEPT !.st = ZeroPending, !.signal = rel]

\* evaluate_signal up to `signal = rel`: the new _primed, _trend, _pending
\* of the product and the signal handed on to the gates (0: none).
SignalStep(c, rel) ==
    LET same == [p |-> primed[c], t |-> trend[c], st |-> pending[c], signal |-> 0]
        st == CountNext(pending[c], rel)
        need == Max(1, confirm_candles)
    IN  IF stop_requested THEN same
        ELSE IF IsFirstCall(c) THEN [same EXCEPT !.p = TRUE, !.t = rel]
        ELSE IF rel = 0
        THEN [same EXCEPT !.st = InBandNext(pending[c], candle_mode = "local")]
        ELSE IF ~Confirmed(st.count, need) THEN [same EXCEPT !.st = st]
        ELSE IF rel = trend[c] THEN [same EXCEPT !.st = ZeroPending]
        ELSE [same EXCEPT !.st = ZeroPending, !.t = rel, !.signal = rel]

NoAct == [pos |-> 0, act |-> "return", side |-> "", quote |-> 0, reason |-> ""]

\* A cap that always leaves room for one order (mutant of Remaining).
RemainingUncapped(spent_today) == usd_per_order

\* evaluate_signal: `remaining = max(0.0, daily_cap - spent_today)`.
Remaining(spent_today) == Max(0, daily_spend_cap_usd - spent_today)

\* A hard stop that never trips (mutant of HardStopHit).
HardStopOff(cb, price) == FALSE

\* evaluate_signal: `cb > 0.0` and `price <= cb * (1 - hs / 10_000)`.
HardStopHit(cb, price) ==
    cb[1] > 0 /\ price * 10000 * cb[2] <= cb[1] * (10000 - hard_stop_bps)

\* evaluate_signal after the cooldown check: the SELL guard, the hard stop
\* (with its seeding of an empty cache from the live balance), the advisor
\* veto and the BUY-only daily cap.  pos is the cached quantity.
Gate(c, sig, price, allow, pos) ==
    LET lv == live[c]
        cb == cost_basis[c]
        ret == [NoAct EXCEPT !.pos = pos]
        stop_hit == HardStopHit(cb, price)
        held_cache == Max(0, pos)
        held == Min(held_cache, lv)
        remaining == Remaining(spend)
    IN  IF sig < 0 /\ Max(pos, lv) <= 0 THEN ret
        ELSE IF sig < 0 /\ stop_hit THEN
            [pos |-> IF held_cache <= 0 /\ lv > 0 THEN lv ELSE pos,
             act |-> IF held > 0 /\ price > 0 THEN "place" ELSE "return",
             side |-> "SELL", quote |-> held * price, reason |-> "stop_loss"]
        ELSE IF enable_advisors /\ ~allow THEN ret
        ELSE IF sig > 0 /\ remaining <= 0 THEN ret
        ELSE [pos |-> pos, act |-> "place",
              side |-> IF sig > 0 THEN "BUY" ELSE "SELL",
              quote |-> IF sig > 0 THEN Min(usd_per_order, remaining) ELSE usd_per_order,
              reason |-> "ema_cross"]

\* An exit that does not defer to momentum (mutant of
\* _quartermaster_exit_ok).
ExitIgnoringMomentum(last_price, entry, hold_hours, macd_known, macd_hist) ==
    IF entry[1] > 0 /\ last_price > 0
          /\ last_price * 10000 * entry[2] >= (10000 + take_profit_bps) * entry[1]
    THEN "take_profit"
    ELSE ""

\* _quartermaster_exit_ok: "" or the exit reason.  entry is the cost basis,
\* macd_hist the MACD histogram in hundredths (macd_known: it is not None).
\* _profit_bps is 0 when either price is missing.
_quartermaster_exit_ok(last_price, entry, hold_hours, macd_known, macd_hist) ==
    LET has_pbps == entry[1] > 0 /\ last_price > 0
        take == IF has_pbps
                THEN last_price * 10000 * entry[2]
                        >= (10000 + take_profit_bps) * entry[1]
                ELSE 0 >= take_profit_bps
        flat_pnl == IF has_pbps
                    THEN Abs(last_price * entry[2] - entry[1]) * 10000
                            < stagnation_close_bps * entry[1]
                    ELSE 0 < stagnation_close_bps
    IN  IF take
        THEN IF quartermaster_respect_macd /\ macd_known /\ macd_hist > flat_macd_abs_max
             THEN "" ELSE "take_profit"
        ELSE IF hold_hours >= max_hold_hours /\ flat_pnl
                   /\ (~macd_known \/ Abs(macd_hist) <= flat_macd_abs_max)
             THEN "stagnation"
        ELSE ""

\* The MACD histogram of a class of readings, in hundredths.
MacdOf(macd) == IF macd = "up" THEN 90 ELSE IF macd = "down" THEN -90 ELSE 0

\* A cache overwritten with the clamped quantity (mutant of SeedFromLive).
ClampToLive(pos, lv) == Min(Max(0, pos), lv)

\* _on_candle_close: an empty cache is seeded from a positive live balance.
SeedFromLive(pos, lv) == IF Max(0, pos) <= 0 /\ lv > 0 THEN lv ELSE pos

\* A floor of one increment only (mutant of SellFloor).
SellFloorIncrementOnly == Max(base_inc, 0)

\* _on_candle_close: `sell_floor = max(base_inc, min_mkt)`.
SellFloor == Max(base_inc, min_market_base_size)

\* _on_candle_close, the Quartermaster pre-check: the cached quantity after
\* the live-balance peek, the dust window, and what happens next.
Quartermaster(c, close_price, long_hold, macd) ==
    LET held_cache == Max(0, positions[c])
        lv == live[c]
        held_qty == Min(held_cache, lv)
        pos == SeedFromLive(positions[c], lv)
        why == _quartermaster_exit_ok(close_price, cost_basis[c],
                                      IF long_hold THEN max_hold_hours ELSE 0,
                                      enable_advisors, MacdOf(macd))
        sell_floor == SellFloor
        out == [pos |-> pos, dust |-> qm_dust_until[c], act |-> "return",
                quote |-> 0, reason |-> ""]
    IN  IF held_qty <= 0 \/ why = "" THEN [out EXCEPT !.act = "continue"]
        ELSE IF now < qm_dust_until[c] THEN out
        ELSE IF held_qty < sell_floor THEN [out EXCEPT !.dust = now + DustSuppressS]
        ELSE IF ~LastOk(c) THEN out
        ELSE IF qm_last_ts[c] # 0 /\ now - qm_last_ts[c] < Min(QmThrottleS, per_coin_cooldown_s)
             THEN out
        ELSE [out EXCEPT !.act = "place", !.quote = held_qty * close_price,
                         !.reason = why]

\* History of the run of Above evaluations (primed, not shutting down): its
\* length n, whether it began with no Above count pending (fresh), whether
\* a BUY was handed to the gates in it, whether confirm_candles stayed the
\* same (steady); ended is the length of a fresh steady run that the latest
\* evaluation closed.
RunNext(c, rel, sig) ==
    IF rel = 1
    THEN IF run.n = 0
         THEN [NoRun EXCEPT !.n = 1, !.fresh = pending[c].rel # 1, !.buy = sig = 1]
         ELSE [run EXCEPT !.n = Min(@ + 1, MaxConfirm), !.buy = @ \/ sig = 1]
    ELSE [NoRun EXCEPT !.ended = IF run.fresh /\ run.steady THEN run.n ELSE 0]

\* ----------------------------------------------------------------- startup
vars == <<positions, cost_basis, realized_pnl, processed, processed_fills_max,
          intent, spend, last_trade, qm_dust_until, qm_last_ts, now, lock,
          cpc, cctx, rpc, rctx, reconciling, sweeps, exchange, submitted, live,
          applied, opening, prior, primed, trend, pending, candle_mode,
          confirm_candles, ticks, stop_requested, autotuned, ev, run, wall,
          last_candle_start, builder_start, local_settle_q, closes, arg, res,
          prefer_maker, prefer_maker_for_sells, answers, warmup, seeded,
          shutdown_once, session_footer_written, spc, ran, exited,
          last_msg_ts, last_candle_close_ts, stall_grace_until,
          consecutive_stall_windows, last_stall_action_ts, stall_total,
          reconnect_tries, idle_reconnects, wpc, idle_rc_ts, wd,
          stall_hard_reconnect_after, stall_flip_to_local_after,
          ws_idle_flip_to_local_after, builders, settle_q, handed,
          fpc,
          frame,
          bpc, stamps,
          kctx, saved,
          hpc>>

Prices == {100, 110}

\* The available balance: nothing, or enough to sell.
LiveLevels == {0, MaxLive}

\* The bar the wall clock is in when the bot starts; bar 1 is in the past.
FirstBar == 2

\* _backfill_seed_indicators leaves _last_candle_start at the newest bar it
\* was given, which is the bar now forming.
Backfilled == {FirstBar}

\* What the exchange may hold from before this run.
Earlier == {{}, {F1}, {F1, F2}}

\* The state after TradeBot.__init__ and _init_ws: portfolio.json and
\* processed_fills.json loaded (a first run, or a run resumed after F1 was
\* ingested), the position clamped to the live balance.  The exchange may
\* already hold fills made before this run started.
StartupCore(pfm, hists, lives, lasts, spends) ==
    \E hist \in hists : \E resumed \in BOOLEAN : \E lv \in lives :
    \E ls \in lasts : \E spent \in spends :
       /\ spend = spent
       /\ last_candle_start = [c \in Coins |-> ls]
       /\ resumed => F1 \in hist
       /\ positions = [c \in Coins |-> StartupClamp(IF resumed THEN 1 ELSE 0, lv)]
       /\ cost_basis = [c \in Coins |-> IF resumed THEN R(101) ELSE R(0)]
       /\ realized_pnl = R(0)
       /\ processed = IF resumed THEN <<_fill_fingerprint(F1)>> ELSE <<>>
       /\ prior = IF resumed THEN {F1} ELSE {}
       /\ processed_fills_max = pfm
       /\ exchange = hist
       /\ submitted = {f.order_id : f \in hist}
       /\ live = [c \in Coins |-> lv]
       /\ opening = positions
    /\ intent = {}
    /\ last_trade = [c \in Coins |-> 0]
    /\ qm_dust_until = [c \in Coins |-> 0]
    /\ qm_last_ts = [c \in Coins |-> 0]
    /\ now = 1
    /\ lock = "free"
    /\ cpc = "idle" /\ cctx = NoCall
    /\ rpc = "idle" /\ rctx = NoSweep
    /\ reconciling = FALSE
    /\ sweeps = 0
    /\ applied = [f \in Fills |-> 0]
    /\ primed = [c \in Coins |-> FALSE]
    /\ trend = [c \in Coins |-> 0]
    /\ pending = [c \in Coins |-> ZeroPending]
    /\ candle_mode = "ws"
    /\ confirm_candles = confirm_default
    /\ ticks = [c \in Coins |-> 0]
    /\ stop_requested = FALSE
    /\ autotuned = FALSE
    /\ ev = NoEval
    /\ run = NoRun
    /\ wall = FirstBar
    /\ builder_start = [c \in Coins |-> 0]
    /\ local_settle_q = <<>>
    /\ closes = [c \in Coins |-> <<>>]

\* No pure function has been called.
NoArg == [f |-> ""]
NoRes == [f |-> ""]

\* The contexts _request_shutdown is called from: the main thread (the run
\* loop returned or raised, sys.excepthook), a background thread
\* (threading.excepthook) and a signal handler, which runs on the main
\* thread.
Requesters == {"main", "thread", "signal"}

\* Nobody has asked for shutdown.
Running ==
    /\ shutdown_once = FALSE
    /\ session_footer_written = FALSE
    /\ spc = [t \in Requesters |-> "idle"]
    /\ ran = <<>>
    /\ exited = FALSE

\* The products the watchdog looks after; the stall check depends on the
\* share of them that stall.
coin_ids == {"ETH-USD", "BTC-USD"}

\* The contexts that run the housekeeping: run_ws_forever and the
\* ws-watchdog thread.
Housekeepers == {"loop", "watchdog"}

\* No candle-stall check has run.
NoCheck == [tick |-> 0, kind |-> "none", stalled |-> {}, resubs |-> 0]

\* The threads that call reconcile_now: the mid-session thread of main.py,
\* the stream thread (pre-SELL reconcile of a candle close) and the
\* watchdog thread (candle closes of the REST backstop).
ReconcileCallers == {"periodic", "candle", "watchdog"}

\* No thread is inside reconcile_now.
NoFlight == fpc = [t \in ReconcileCallers |-> "idle"]

\* The threads that run _on_candle_close: the stream callback and the
\* watchdog with its REST backstop.
HandlerThreads == {"stream", "watchdog"}
NoBuy == [pc |-> "idle", coin |-> "", quote |-> 0]

\* No thread is between the daily-cap gate and place_order's return; no
\* product has traded.
NoBuyers ==
    /\ bpc = [t \in HandlerThreads |-> NoBuy]
    /\ stamps = [c \in coin_ids |-> 0]

\* The process is up and outside a sweep; portfolio.json holds the ledger
\* that was loaded from it.
NoSweeping == [pc |-> "idle", todo |-> <<>>, changed |-> FALSE, restarts |-> 0]
Flushed ==
    /\ kctx = NoSweeping
    /\ saved = [L |-> Ledger, applied |-> applied]

\* No caller of _on_candle_close is past its test of stop_requested.
NoCaller == hpc = "idle"

\* on_ws_message is handling no candles message.
NoFrame == frame = <<>>

\* No tick aggregated, no close waiting for its release.
Unsettled ==
    /\ builders = [c \in coin_ids |-> -1]
    /\ settle_q = <<>>
    /\ handed = <<>>

\* The watchdog state the constructor leaves: every product's last close
\* stamped by the backfill, no grace, no stall seen; the escalation
\* settings as configured.
Watching(hard_after, stall_flips, idle_flips) ==
    /\ last_msg_ts = now
    /\ last_candle_close_ts = [c \in coin_ids |-> now]
    /\ stall_grace_until = [c \in coin_ids |-> 0]
    /\ consecutive_stall_windows = 0
    /\ last_stall_action_ts = 0
    /\ stall_total = 0
    /\ reconnect_tries = 0
    /\ idle_reconnects = 0
    /\ wpc = [t \in Housekeepers |-> "idle"]
    /\ idle_rc_ts = 0
    /\ wd = NoCheck
    /\ stall_hard_reconnect_after \in hard_after
    /\ stall_flip_to_local_after \in stall_flips
    /\ ws_idle_flip_to_local_after \in idle_flips

\* The constructor has returned: the warm-up is over, and _last_candle_start
\* is the newest candle it fed, if it fed any.
Constructed ==
    /\ warmup = "done"
    /\ seeded = [c \in Coins |-> IF last_candle_start[c] = 0 THEN <<>>
                                 ELSE <<last_candle_start[c]>>]
    /\ Running
    /\ Watching({2}, {0}, {0})
    /\ Unsettled
    /\ NoFlight
    /\ NoFrame
    /\ NoBuyers
    /\ Flushed
    /\ NoCaller

\* The state after construction, today's spend loaded from daily_spend.json,
\* and what the exchange may answer during the run.
StartupAnswered(pfm, hists, lives, lasts, spends, answer_sets) ==
    /\ StartupCore(pfm, hists, lives, lasts, spends)
    /\ Constructed
    /\ arg = NoArg /\ res = NoRes
    /\ prefer_maker \in BOOLEAN
    /\ prefer_maker_for_sells \in BOOLEAN
    /\ answers \in answer_sets

StartupSpent(pfm, hists, lives, lasts, spends) ==
    StartupAnswered(pfm, hists, lives, lasts, spends, {TypicalAnswers})

\* A start on a day with nothing spent yet.
Startup(pfm, hists, lives, lasts) == StartupSpent(pfm, hists, lives, lasts, {0})

\* ------------------------------------------------- the ledger on its own
\* place_order is entered (by evaluate_signal or the Quartermaster).
PlaceOrderCall ==
    /\ cpc = "idle"
    /\ \E c \in Coins : \E side \in {"BUY", "SELL"} : \E p \in Prices :
          cctx' = [NoCall EXCEPT !.coin = c, !.side = side, !.quote = usd_per_order,
                                 !.price = p, !.reason = "signal", !.caller = "signal",
                                 !.now_ts = now]
    /\ cpc' = "place"
    /\ UNCHANGED <<ledgerVars, orderVars, lock, reconThr, envVars, histVars,
                   sigVars, pipeVars, probeVars, cfgVars>>

CandleThreadLedger ==
    \/ PlaceOrderCall
    \/ PlaceOrderSubmit
    \/ PlaceOrderFetch
    \/ PlaceOrderLock
    \/ PlaceOrderIngest
    \/ PlaceOrderPrune
    \/ PlaceOrderReturn

ReconcileThread ==
    \/ PeriodicReconcile
    \/ ReconcileFetch
    \/ ReconcileCheck
    \/ ReconcileIngest
    \/ ReconcileFinish

\* Both threads running freely, index never pruned (the shipped limit).
InitLedger == Startup(processed_fills_max_default, Earlier, LiveLevels, Backfilled)
NextLedger == CandleThreadLedger \/ ReconcileThread \/ ExchangeFill
SpecLedger == InitLedger /\ [][NextLedger]_vars

\* place_order on its own, the exchange giving one kind of answer: any
\* combination of the keys _resp_ok reads.
InitSubmit ==
    StartupAnswered(processed_fills_max_default, {{F1}}, {MaxLive}, Backfilled, {0},
                    {{r} : r \in Responses})
SpecSubmit == InitSubmit /\ [][CandleThreadLedger]_vars

\* One call at a time (no thread overlap), with a small index limit.
InitReplay == Startup(SmallIndex, Earlier, LiveLevels, Backfilled)
NextReplay ==
    \/ rpc = "idle" /\ CandleThreadLedger
    \/ cpc = "idle" /\ ReconcileThread
    \/ ExchangeFill
SpecReplay == InitReplay /\ [][NextReplay]_vars

\* ------------------------------------------------------ the candle thread
Call(c, side, quote, price, reason, caller, allow) ==
    [NoCall EXCEPT !.coin = c, !.side = side, !.quote = quote, !.price = price,
                   !.reason = reason, !.caller = caller, !.now_ts = now,
                   !.allow = allow]

\* A handler that skips evaluate_signal only when the Quartermaster placed
\* an order (mutant of Preempted).
PreemptedByOrderOnly(act) == act = "place"

\* A Quartermaster that never ends the handler (mutant of Preempted).
NeverPreempted(act) == FALSE

\* _on_candle_close: once the exit condition holds for a held position the
\* Quartermaster block returns, with or without an order.
Preempted(act) == act # "continue"

\* _on_candle_close for one closed bar: indicators and the tick count, the
\* Quartermaster pre-check, then evaluate_signal as far as its first
\* blocking call (the pre-SELL reconcile_now, or place_order).
OnCandleCloseOf(c, close_price, ema, allow, long_hold, macd) ==
    /\ cpc = "idle"
    /\ \E qm \in {Quartermaster(c, close_price, long_hold, macd)} :
       \E ss \in {SignalStep(c, Rel(ema[1], ema[2]))} :
       LET n == Min(ticks[c] + 1, min_candles)
           evaluates == ~Preempted(qm.act) /\ n >= min_candles
           sig == IF evaluates THEN ss.signal ELSE 0
           sweep == sig < 0 /\ reconcile_on_sell_attempt /\ ~reconciling
           g == Gate(c, sig, close_price, allow, qm.pos)
       IN  /\ ticks' = [ticks EXCEPT ![c] = n]
           /\ qm_dust_until' = [qm_dust_until EXCEPT ![c] = qm.dust]
           /\ IF evaluates
              THEN /\ primed' = [primed EXCEPT ![c] = ss.p]
                   /\ trend' = [trend EXCEPT ![c] = ss.t]
                   /\ pending' = [pending EXCEPT ![c] = ss.st]
              ELSE UNCHANGED <<primed, trend, pending>>
           /\ IF qm.act = "place" THEN
                  /\ positions' = [positions EXCEPT ![c] = qm.pos]
                  /\ cctx' = Call(c, "SELL", qm.quote, close_price, qm.reason, "qm", FALSE)
                  /\ cpc' = "place"
                  /\ UNCHANGED <<rpc, rctx, reconciling>>
              ELSE IF sig = 0 \/ ~LastOk(c) THEN
                  /\ positions' = [positions EXCEPT ![c] = qm.pos]
                  /\ UNCHANGED <<cpc, cctx, rpc, rctx, reconciling>>
              ELSE IF sweep THEN
                  /\ positions' = [positions EXCEPT ![c] = qm.pos]
                  /\ cctx' = Call(c, "SELL", 0, close_price, "", "signal", allow)
                  /\ cpc' = "wait"
                  /\ reconciling' = TRUE
                  /\ rctx' = [NoSweep EXCEPT !.caller = "candle"]
                  /\ rpc' = "fetch"
              ELSE
                  /\ positions' = [positions EXCEPT ![c] = g.pos]
                  /\ IF g.act = "place"
                     THEN /\ cctx' = Call(c, g.side, g.quote, close_price, g.reason,
                                          "signal", allow)
                          /\ cpc' = "place"
                     ELSE UNCHANGED <<cpc, cctx>>
                  /\ UNCHANGED <<rpc, rctx, reconciling>>
    /\ UNCHANGED <<cost_basis, realized_pnl, processed, processed_fills_max,
                   intent, spend, last_trade, qm_last_ts, lock, sweeps, envVars,
                   applied, opening, prior, candle_mode, confirm_candles,
                   stop_requested, autotuned, pipeVars, probeVars, cfgVars>>

\* The closed bar's inputs: close price, EMA readings, the advisors' verdict,
\* whether the position is older than max_hold_hours, the MACD class.  An
\* input the handler does not read in the current state takes one value:
\* the Quartermaster reads its inputs only for a held position, the gates
\* read theirs only for a fired signal.
Held(c) == Min(Max(0, positions[c]), live[c]) > 0
Fires(c, ema) == SignalStep(c, Rel(ema[1], ema[2])).signal # 0
ClosesRead(c, ema) == IF Held(c) \/ Fires(c, ema) THEN Prices ELSE {100}
AdvisorsRead(c, ema) == IF Fires(c, ema) THEN BOOLEAN ELSE {TRUE}
HoldRead(c) == IF Held(c) THEN BOOLEAN ELSE {FALSE}
MacdRead(c) == IF Held(c) THEN {"flat", "up", "down"} ELSE {"flat"}

OnCandleClose ==
    /\ \E c \in Coins : \E ema \in EMAPairs : \E close_price \in ClosesRead(c, ema) :
       \E allow \in AdvisorsRead(c, ema) : \E long_hold \in HoldRead(c) :
       \E macd \in MacdRead(c) :
          OnCandleCloseOf(c, close_price, ema, allow, long_hold, macd)
    /\ UNCHANGED <<ev, run>>

\* The same handler with the history of its evaluate_signal call recorded.
OnCandleCloseTraced ==
    \E c \in Coins : \E ema \in EMAPairs : \E close_price \in ClosesRead(c, ema) :
    \E allow \in AdvisorsRead(c, ema) : \E long_hold \in HoldRead(c) :
    \E macd \in MacdRead(c) :
       /\ OnCandleCloseOf(c, close_price, ema, allow, long_hold, macd)
       /\ LET rel == Rel(ema[1], ema[2])
              evaluates == ~Preempted(Quartermaster(c, close_price, long_hold, macd).act)
                           /\ ticks[c] + 1 >= min_candles
              sig == SignalStep(c, rel).signal
          IN  IF evaluates
              THEN /\ ev' = [tick |-> 1 - ev.tick, coin |-> c, rel |-> rel,
                             signal |-> sig]
                   /\ run' = IF primed[c] /\ ~stop_requested
                             THEN RunNext(c, rel, sig) ELSE run
              ELSE UNCHANGED <<ev, run>>

\* evaluate_signal resumes after its pre-SELL reconcile_now.
EvaluateGate ==
    /\ cpc = "gate"
    /\ LET c == cctx.coin
           g == Gate(c, -1, cctx.price, cctx.allow, positions[c])
       IN  /\ positions' = [positions EXCEPT ![c] = g.pos]
           /\ IF g.act = "place"
              THEN /\ cctx' = Call(c, g.side, g.quote, cctx.price, g.reason,
                                   "signal", cctx.allow)
                   /\ cpc' = "place"
              ELSE /\ cctx' = NoCall
                   /\ cpc' = "idle"
    /\ UNCHANGED <<cost_basis, realized_pnl, processed, processed_fills_max,
                   orderVars, lock, reconThr, envVars, histVars, sigVars, pipeVars, probeVars, cfgVars>>

\* ------------------------------------------------------------ environment
Tick ==
    /\ now < MaxTime
    /\ now' = now + 1
    /\ UNCHANGED <<ledgerVars, orderVars, lock, candleThr, reconThr, exchange,
                   submitted, live, histVars, sigVars, pipeVars, probeVars, cfgVars>>

\* The available balance at the exchange moves (fills, deposits, holds).
LiveChange ==
    /\ \E lv \in LiveLevels : live' = [c \in Coins |-> lv]
    /\ live' # live
    /\ UNCHANGED <<ledgerVars, orderVars, lock, candleThr, reconThr, exchange,
                   submitted, now, histVars, sigVars, pipeVars, probeVars, cfgVars>>

\* run_ws_forever / _watchdog_loop: the stream falls back to local candles.
FlipToLocal ==
    /\ candle_mode = "ws"
    /\ candle_mode' = "local"
    /\ UNCHANGED <<ledgerVars, orderVars, lock, candleThr, reconThr, envVars,
                   applied, opening, prior, ev, run, primed, trend, pending,
                   confirm_candles, ticks, stop_requested, autotuned, pipeVars, probeVars, cfgVars>>

\* main.py, the one-shot elapsed AutoTune refresh rewrites confirm_candles.
AutoTune ==
    /\ ~autotuned /\ ~stop_requested
    /\ autotuned' = TRUE
    /\ \E k \in 1..MaxConfirm : confirm_candles' = k
    /\ run' = IF confirm_candles' # confirm_candles /\ run.n > 0
              THEN [run EXCEPT !.steady = FALSE] ELSE run
    /\ UNCHANGED <<ledgerVars, orderVars, lock, candleThr, reconThr, envVars,
                   applied, opening, prior, ev, primed, trend, pending,
                   candle_mode, ticks, stop_requested, pipeVars, probeVars, cfgVars>>

\* main.py, _request_shutdown.
RequestShutdown ==
    /\ ~stop_requested
    /\ stop_requested' = TRUE
    /\ UNCHANGED <<ledgerVars, orderVars, lock, candleThr, reconThr, envVars,
                   histVars, primed, trend, pending, candle_mode, confirm_candles,
                   ticks, autotuned, pipeVars, probeVars, cfgVars>>

CandleThread ==
    \/ OnCandleClose
    \/ EvaluateGate
    \/ PlaceOrderSubmit
    \/ PlaceOrderFetch
    \/ PlaceOrderLock
    \/ PlaceOrderIngest
    \/ PlaceOrderPrune
    \/ PlaceOrderReturn

\* The sweep evaluate_signal runs itself before a SELL.
Sweep ==
    \/ ReconcileFetch
    \/ ReconcileCheck
    \/ ReconcileIngest
    \/ ReconcileFinish

\* The candle thread with the exchange, the clock and the live balance.
Init == Startup(processed_fills_max_default, {{}, {F1}}, LiveLevels, Backfilled)
Next ==
    \/ CandleThread
    \/ Sweep
    \/ ExchangeFill
    \/ Tick
    \/ LiveChange
Spec == Init /\ [][Next]_vars

\* The candle thread on an account that holds the product, with the clock:
\* the Quartermaster's exits and what suppresses them.
InitExit == Startup(processed_fills_max_default, {{F1}}, {MaxLive}, Backfilled)
NextExit ==
    \/ CandleThread
    \/ Sweep
    \/ Tick
SpecExit == InitExit /\ [][NextExit]_vars

\* What daily_spend.json may hold for today when the bot starts: nothing,
\* less than one order short of the cap, the cap.
SpentToday == {0, daily_spend_cap_usd - usd_per_order \div 2, daily_spend_cap_usd}

\* The candle thread started on a day with earlier spending, one earlier
\* BUY on the exchange and the balance to sell it.
InitGates ==
    StartupSpent(processed_fills_max_default, {{F1}}, {MaxLive}, Backfilled, SpentToday)
SpecGates == InitGates /\ [][Next]_vars

\* The signal state machine: the AutoTune refresh sets any confirm_candles,
\* the stream may fall back to local candles, shutdown may be requested.
\* The clock stands still here, so the cooldown holds the thread to one
\* order; the exchange holds one fill and the account no free balance.
InitSignal == Startup(processed_fills_max_default, {{F1}}, {0}, Backfilled)
NextSignal ==
    \/ OnCandleCloseTraced
    \/ EvaluateGate
    \/ PlaceOrderSubmit
    \/ PlaceOrderFetch
    \/ PlaceOrderLock
    \/ PlaceOrderIngest
    \/ PlaceOrderPrune
    \/ PlaceOrderReturn
    \/ Sweep
    \/ ExchangeFill
    \/ FlipToLocal
    \/ AutoTune
    \/ RequestShutdown
SpecSignal == InitSignal /\ [][NextSignal]_vars

\* ---------------------------------------------------------- candle feed
\* _on_candle_close as the feed sees it: the bar is counted and handed on.
Deliver(c, starts) ==
    /\ closes' = [closes EXCEPT ![c] = @ \o starts]
    /\ ticks' = [ticks EXCEPT ![c] = Min(@ + Len(starts), min_candles)]

\* The wall clock passes a bar boundary.
BarRolls ==
    /\ wall < MaxBar
    /\ wall' = wall + 1
    /\ UNCHANGED <<ledgerVars, orderVars, lock, candleThr, reconThr, envVars,
                   histVars, sigVars, last_candle_start, builder_start,
                   local_settle_q, closes, probeVars, cfgVars>>

\* on_ws_message, channel "candles": a frame for the bar now forming.  The
\* first frame only records the bar; a frame for another bar closes the
\* recorded one.
WsCandleFrame ==
    /\ ~stop_requested
    /\ candle_mode = "ws"
    /\ \E c \in Coins :
       LET start == wall
           last_start == last_candle_start[c]
       IN  /\ start # last_start
           /\ Len(closes[c]) < MaxCloses
           /\ last_candle_start' = [last_candle_start EXCEPT ![c] = start]
           /\ IF last_start = 0
              THEN UNCHANGED <<closes, ticks>>
              ELSE Deliver(c, <<last_start>>)
    /\ UNCHANGED <<ledgerVars, orderVars, lock, candleThr, reconThr, envVars,
                   histVars, primed, trend, pending, candle_mode,
                   confirm_candles, stop_requested, autotuned, wall,
                   builder_start, local_settle_q, probeVars, cfgVars>>

\* CandleBuilder.update: the bar closed by a tick at bar bs, 0 for None.
BuilderClosed(start, bs) == IF start # 0 /\ bs # start THEN start ELSE 0

\* on_ws_message, channel "ticker", in local mode: the queued bars whose
\* release time has come are closed (_flush_local_settle), then the tick
\* goes to the builder and a bar it closes is queued; the flush after the
\* loop finds nothing more, the new entry being released later.
WsTicker ==
    /\ ~stop_requested
    /\ candle_mode = "local"
    /\ \E c \in Coins : \E k \in 0..Len(local_settle_q) :
       LET closed == BuilderClosed(builder_start[c], wall)
           rest == SubSeq(local_settle_q, k + 1, Len(local_settle_q))
       IN  /\ Len(closes[c]) + k <= MaxCloses
           /\ k > 0 \/ builder_start[c] # wall
           /\ Deliver(c, SubSeq(local_settle_q, 1, k))
           /\ builder_start' = [builder_start EXCEPT ![c] = wall]
           /\ local_settle_q' = IF closed # 0 THEN Append(rest, closed) ELSE rest
    /\ UNCHANGED <<ledgerVars, orderVars, lock, candleThr, reconThr, envVars,
                   histVars, primed, trend, pending, candle_mode,
                   confirm_candles, stop_requested, autotuned, wall,
                   last_candle_start, probeVars, cfgVars>>

\* The candles get_candles returns for the window ending at the bar now
\* forming; listed says whether that bar itself is in the answer.
RestCandles(listed) ==
    LET lo == Max(1, wall - RestWindow)
        hi == IF listed THEN wall ELSE wall - 1
    IN  [i \in 1..(hi - lo + 1) |-> lo + i - 1]

\* _rest_backstop_tick, the walk over the sorted answer: a candle newer than
\* last_seen closes last_seen; every candle becomes last_seen.
RECURSIVE RestWalk(_, _, _)
RestWalk(arr, last_seen, out) ==
    IF arr = <<>>
    THEN [last |-> last_seen, out |-> out]
    ELSE LET c_start == Head(arr)
         IN  RestWalk(Tail(arr), c_start,
                      IF last_seen # 0 /\ c_start > last_seen
                      THEN Append(out, last_seen) ELSE out)

\* _rest_backstop_tick (from run_ws_forever or _watchdog_loop) once the
\* stream has been idle or the candles stale, and the poll is not throttled.
RestBackstopTick ==
    /\ ~stop_requested
    /\ \E c \in Coins : \E listed \in BOOLEAN :
       LET arr == RestCandles(listed)
           w == RestWalk(arr, last_candle_start[c], <<>>)
       IN  /\ arr # <<>>
           /\ Len(closes[c]) + Len(w.out) <= MaxCloses
           /\ w.out # <<>> \/ w.last # last_candle_start[c]
           /\ last_candle_start' = [last_candle_start EXCEPT ![c] = w.last]
           /\ Deliver(c, w.out)
    /\ UNCHANGED <<ledgerVars, orderVars, lock, candleThr, reconThr, envVars,
                   histVars, primed, trend, pending, candle_mode,
                   confirm_candles, stop_requested, autotuned, wall,
                   builder_start, local_settle_q, probeVars, cfgVars>>

\* The three producers of closed bars, the clock, the fall-back to local
\* candles (with the watchdog polling throughout) and shutdown.  The stream
\* may have started without a backfill.
InitPipeline ==
    Startup(processed_fills_max_default, {{}}, {0}, {0} \cup Backfilled)
NextPipeline ==
    \/ BarRolls
    \/ WsCandleFrame
    \/ WsTicker
    \/ RestBackstopTick
    \/ FlipToLocal
    \/ RequestShutdown
SpecPipeline == InitPipeline /\ [][NextPipeline]_vars

\* ------------------------------------------------ candles message, by candle
\* The candles one "candles" message carries for a product: the bar now
\* forming, or the bar before it and the bar now forming.
CandleLists ==
    {<<wall>>} \cup (IF wall > 1 THEN {<<wall - 1, wall>>} ELSE {})

\* on_ws_message, channel "candles": the handler returns unless stop is
\* unset and candle_mode is "ws"; the test is made once per message, before
\* the loop over its candles.
CandlesMessage ==
    /\ ~stop_requested
    /\ candle_mode = "ws"
    /\ frame = <<>>
    /\ \E c \in Coins : \E cs \in CandleLists :
          frame' = [i \in 1..Len(cs) |-> [pid |-> c, start |-> cs[i]]]
    /\ UNCHANGED <<ledgerVars, orderVars, lock, candleThr, reconThr, envVars,
                   histVars, sigVars, pipeVars, probeVars, tradeCfg, bootVars,
                   shutVars, stallVars, idleVars, wdCfg, settleVars, flightVars,
                   capVars, diskVars, callVars>>

\* on_ws_message, channel "candles": the body of the loop for one candle.
\* The first candle of a product only records the bar; a candle of another
\* bar closes the recorded one.
CandleOfMessage ==
    /\ frame # <<>>
    /\ LET c == Head(frame).pid
           start == Head(frame).start
           last_start == last_candle_start[c]
       IN  /\ Len(closes[c]) < MaxCloses
           /\ frame' = Tail(frame)
           /\ IF last_start = 0
              THEN /\ last_candle_start' = [last_candle_start EXCEPT ![c] = start]
                   /\ UNCHANGED <<closes, ticks>>
              ELSE IF start # last_start
              THEN /\ Deliver(c, <<last_start>>)
                   /\ last_candle_start' = [last_candle_start EXCEPT ![c] = start]
              ELSE UNCHANGED <<last_candle_start, closes, ticks>>
    /\ UNCHANGED <<ledgerVars, orderVars, lock, candleThr, reconThr, envVars,
                   histVars, primed, trend, pending, candle_mode,
                   confirm_candles, stop_requested, autotuned, wall,
                   builder_start, local_settle_q, probeVars, tradeCfg, bootVars,
                   shutVars, stallVars, idleVars, wdCfg, settleVars, flightVars,
                   capVars, diskVars, callVars>>

\* The stream thread handling candles messages candle by candle, with the
\* housekeeping thread polling, falling back to local candles and stopping
\* in between.
InitFrames == InitPipeline
NextFrames ==
    \/ BarRolls
    \/ CandlesMessage
    \/ CandleOfMessage
    \/ RestBackstopTick
    \/ FlipToLocal
    \/ RequestShutdown
SpecFrames == InitFrames /\ [][NextFrames]_vars

\* ------------------------------------------------- closes around shutdown
\* What the callers of _on_candle_close leave alone.
CallerFrame ==
    UNCHANGED <<ledgerVars, orderVars, lock, candleThr, reconThr, envVars,
                histVars, sigVars, pipeVars, probeVars, tradeCfg, bootVars,
                shutVars, stallVars, idleVars, wdCfg, settleVars, flightVars,
                frameVars, capVars, diskVars>>

\* A caller of _on_candle_close passes its test of stop_requested:
\* on_ws_message at its top (before the flush of the settle queue and the
\* loop over the message), _watchdog_loop and run_ws_forever at the top of
\* the loop that runs _rest_backstop_tick.
CallerPasses ==
    /\ hpc = "idle"
    /\ ~stop_requested
    /\ hpc' = "in"
    /\ CallerFrame

\* The caller hands a closed bar to _on_candle_close: a candle of the
\* message, a queued local close, a bar the REST answer closes.
CallerCloses ==
    /\ hpc = "in"
    /\ OnCandleClose

\* The caller is through with its message or its poll.
CallerReturns ==
    /\ hpc = "in"
    /\ cpc = "idle"
    /\ hpc' = "idle"
    /\ CallerFrame

\* Candle closes reaching the handler through their callers while shutdown
\* may be requested at any point.
InitStop == Init
NextStop ==
    \/ CallerPasses
    \/ CallerCloses
    \/ CallerReturns
    \/ EvaluateGate
    \/ PlaceOrderSubmit
    \/ PlaceOrderFetch
    \/ PlaceOrderLock
    \/ PlaceOrderIngest
    \/ PlaceOrderPrune
    \/ PlaceOrderReturn
    \/ Sweep
    \/ ExchangeFill
    \/ Tick
    \/ RequestShutdown
SpecStop == InitStop /\ [][NextStop]_vars

\* --------------------------------------------- the daily cap, two threads
\* What a BUY on its way from the daily-cap gate through place_order leaves
\* alone.
CapFrame ==
    UNCHANGED <<ledgerVars, intent, last_trade, qm_dust_until, qm_last_ts, lock,
                candleThr, reconThr, exchange, submitted, live, histVars,
                sigVars, pipeVars, probeVars, tradeCfg, bootVars, shutVars,
                stallVars, idleVars, wdCfg, settleVars, flightVars, frameVars,
                diskVars, callVars>>

\* evaluate_signal for a fired BUY of a product no other thread is handling:
\* the cooldown check, then the BUY-only daily cap: spent_today is read and
\* the notional is min(usd_per_order, remaining).  With nothing remaining
\* the handler returns.
CapGate(t) ==
    /\ ~stop_requested
    /\ bpc[t].pc = "idle"
    /\ \E c \in coin_ids :
          /\ \A u \in HandlerThreads \ {t} : bpc[u].coin # c
          /\ stamps[c] = 0 \/ now - stamps[c] >= per_coin_cooldown_s
          /\ Remaining(spend) > 0
          /\ bpc' = [bpc EXCEPT ![t] =
                        [pc |-> "place", coin |-> c,
                         quote |-> Min(usd_per_order, Remaining(spend))]]
    /\ UNCHANGED <<spend, now, stamps>>
    /\ CapFrame

\* place_order for that BUY: the exchange answers; on an answer judged a
\* success SpendTracker.add records the notional and the product is
\* stamped.
CapPlace(t) ==
    /\ bpc[t].pc = "place"
    /\ \E resp \in answers :
          IF _resp_ok(resp)
          THEN /\ spend' = spend + bpc[t].quote
               /\ stamps' = [stamps EXCEPT ![bpc[t].coin] = now]
          ELSE UNCHANGED <<spend, stamps>>
    /\ bpc' = [bpc EXCEPT ![t] = NoBuy]
    /\ UNCHANGED now
    /\ CapFrame

\* Candle closes of different products handled by the stream thread and by
\* the watchdog thread at the same time, on a day with earlier spending.
InitCap ==
    StartupSpent(processed_fills_max_default, {{}}, {0}, Backfilled, SpentToday)
NextCap ==
    \/ \E t \in HandlerThreads : CapGate(t) \/ CapPlace(t)
    \/ Tick
    \/ RequestShutdown
SpecCap == InitCap /\ [][NextCap]_vars

\* ---------------------------------------------------------------- warm-up
\* What get_candles may answer the backfill for one product: nothing (the
\* call raised, or the list is empty), or the window with or without the
\* bar now forming.
BackfillAnswers == {<<>>, RestCandles(TRUE), RestCandles(FALSE)}

\* A warm-up that hands every candle to _on_candle_close instead, and so
\* primes the signal state machine (mutant of BackfillSeedIndicators).
BackfillThroughHandler ==
    /\ warmup = "due"
    /\ warmup' = "done"
    /\ \E got \in [Coins -> BackfillAnswers] :
          /\ seeded' = got
          /\ ticks' = [c \in Coins |-> Min(ticks[c] + Len(got[c]), min_candles)]
          /\ primed' = [c \in Coins |-> primed[c] \/ ticks'[c] >= min_candles]
          /\ last_candle_start' =
                [c \in Coins |-> IF got[c] # <<>> THEN got[c][Len(got[c])]
                                 ELSE last_candle_start[c]]
    /\ UNCHANGED <<ledgerVars, orderVars, lock, candleThr, reconThr, envVars,
                   histVars, trend, pending, candle_mode, confirm_candles,
                   stop_requested, autotuned, wall, builder_start,
                   local_settle_q, closes, probeVars, tradeCfg, shutVars,
                   stallVars, idleVars, wdCfg, settleVars,
                flightVars, frameVars, capVars, diskVars, callVars>>

\* _backfill_seed_indicators, called once by the constructor: for every
\* product the candles of the answer, sorted by start, are fed to the
\* indicators and counted, and the newest becomes _last_candle_start.  A
\* product whose fetch raised is skipped.
BackfillSeedIndicators ==
    /\ warmup = "due"
    /\ warmup' = "done"
    /\ \E got \in [Coins -> BackfillAnswers] :
          /\ seeded' = got
          /\ ticks' = [c \in Coins |-> Min(ticks[c] + Len(got[c]), min_candles)]
          /\ last_candle_start' =
                [c \in Coins |-> IF got[c] # <<>> THEN got[c][Len(got[c])]
                                 ELSE last_candle_start[c]]
    /\ UNCHANGED <<ledgerVars, orderVars, lock, candleThr, reconThr, envVars,
                   histVars, primed, trend, pending, candle_mode,
                   confirm_candles, stop_requested, autotuned, wall,
                   builder_start, local_settle_q, closes, probeVars,
                   tradeCfg, shutVars, stallVars, idleVars, wdCfg, settleVars,
                flightVars, frameVars, capVars, diskVars, callVars>>

\* The constructor about to run the warm-up: nothing seeded, no candle seen.
InitWarmup ==
    /\ StartupCore(processed_fills_max_default, {{}}, {0}, {0}, {0})
    /\ warmup = "due"
    /\ seeded = [c \in Coins |-> <<>>]
    /\ Running
    /\ Watching({2}, {0}, {0})
    /\ Unsettled
    /\ NoFlight
    /\ NoFrame
    /\ NoBuyers
    /\ Flushed
    /\ NoCaller
    /\ arg = NoArg /\ res = NoRes
    /\ prefer_maker = TRUE
    /\ prefer_maker_for_sells = TRUE
    /\ answers = TypicalAnswers

\* The stream and the watchdog start once the constructor has returned.
Live ==
    /\ warmup = "done"
    /\ \/ BarRolls
       \/ WsCandleFrame
       \/ WsTicker
       \/ RestBackstopTick
       \/ FlipToLocal
       \/ RequestShutdown

NextWarmup == BackfillSeedIndicators \/ Live
SpecWarmup == InitWarmup /\ [][NextWarmup]_vars

\* --------------------------------------------------------------- shutdown
\* The frame of a step of _request_shutdown.
ShutdownFrame ==
    UNCHANGED <<ledgerVars, orderVars, lock, candleThr, reconThr, envVars,
                histVars, primed, trend, pending, candle_mode,
                confirm_candles, ticks, autotuned, pipeVars, probeVars,
                tradeCfg, bootVars, stallVars, idleVars, wdCfg, settleVars,
                flightVars, frameVars, capVars, diskVars, callVars>>

\* A context can take a step: the process is alive, and the main thread
\* stands still while a signal handler runs on it.
Runs(t) ==
    /\ ~exited
    /\ t = "main" => spc["signal"] = "idle"

\* _request_shutdown is called.  The signal handlers return at once when
\* the flag is set.
RequestEnter(t) ==
    /\ Runs(t) /\ spc[t] = "idle"
    /\ t = "signal" => ~shutdown_once
    /\ spc' = [spc EXCEPT ![t] = "test"]
    /\ UNCHANGED <<stop_requested, shutdown_once, session_footer_written,
                   ran, exited>>
    /\ ShutdownFrame

\* if not _shutdown_once.is_set():
RequestTest(t) ==
    /\ Runs(t) /\ spc[t] = "test"
    /\ spc' = [spc EXCEPT ![t] = IF shutdown_once THEN "finalize" ELSE "set"]
    /\ UNCHANGED <<stop_requested, shutdown_once, session_footer_written,
                   ran, exited>>
    /\ ShutdownFrame

\* _shutdown_once.set(); bot.stop_requested = True
RequestSet(t) ==
    /\ Runs(t) /\ spc[t] = "set"
    /\ shutdown_once' = TRUE
    /\ stop_requested' = TRUE
    /\ spc' = [spc EXCEPT ![t] = "close"]
    /\ UNCHANGED <<session_footer_written, ran, exited>>
    /\ ShutdownFrame

\* TradeBot.close: if not self.session_footer_written:
CloseTest(t) ==
    /\ Runs(t) /\ spc[t] = "close"
    /\ spc' = [spc EXCEPT ![t] = IF session_footer_written THEN "teardown"
                                 ELSE "footer"]
    /\ UNCHANGED <<stop_requested, shutdown_once, session_footer_written,
                   ran, exited>>
    /\ ShutdownFrame

\* TradeBot.close: self.log_session_pnl(); self.session_footer_written = True
CloseFooter(t) ==
    /\ Runs(t) /\ spc[t] = "footer"
    /\ ran' = Append(ran, "summary")
    /\ session_footer_written' = TRUE
    /\ spc' = [spc EXCEPT ![t] = "teardown"]
    /\ UNCHANGED <<stop_requested, shutdown_once, exited>>
    /\ ShutdownFrame

\* TradeBot.close: self.ws.close()
CloseTeardown(t) ==
    /\ Runs(t) /\ spc[t] = "teardown"
    /\ ran' = Append(ran, "teardown")
    /\ spc' = [spc EXCEPT ![t] = "finalize"]
    /\ UNCHANGED <<stop_requested, shutdown_once, session_footer_written,
                   exited>>
    /\ ShutdownFrame

\* _finalize_and_exit: logging.shutdown(), then os._exit(code) ends the
\* process and every thread in it.
FinalizeAndExit(t) ==
    /\ Runs(t) /\ spc[t] = "finalize"
    /\ exited' = TRUE
    /\ UNCHANGED <<stop_requested, shutdown_once, session_footer_written,
                   spc, ran>>
    /\ ShutdownFrame

RequestShutdownSteps ==
    \E t \in Requesters :
       \/ RequestEnter(t)
       \/ RequestTest(t)
       \/ RequestSet(t)
       \/ CloseTest(t)
       \/ CloseFooter(t)
       \/ CloseTeardown(t)
       \/ FinalizeAndExit(t)

\* The running bot, with shutdown requested from any of the contexts at
\* any time.
InitShutdown == Startup(processed_fills_max_default, {{}, {F1}}, LiveLevels, Backfilled)
SpecShutdown == InitShutdown /\ [][RequestShutdownSteps]_vars

\* --------------------------------------------------------------- watchdog
\* Times are counted in units of the model's clock: a product stalls
\* StallS after its last close, a resubscribe is debounced for
\* StallCooldown, the grace after a flip to local candles lasts GraceLen,
\* and the stream is reconnected after IdleS without a message.
StallS == 2
StallCooldown == 1
GraceLen == 1
IdleS == 2
MajorityPct == 60

\* The frame of a step of the stream or of the housekeeping.
StreamFrame ==
    UNCHANGED <<ledgerVars, orderVars, lock, candleThr, reconThr, exchange,
                submitted, live, histVars, primed, trend, pending,
                confirm_candles, ticks, stop_requested, autotuned, pipeVars,
                probeVars, tradeCfg, bootVars, shutVars, wdCfg, flightVars, frameVars, capVars, diskVars, callVars>>

\* The frame of a housekeeping step.
WatchFrame == StreamFrame /\ UNCHANGED settleVars

\* _set_local_mode_grace: the horizon for every product.
LocalModeGrace == [c \in coin_ids |-> now + GraceLen]

\* _subscribe_all: when the candles channel cannot be subscribed in ws
\* mode, the bot falls back to local candles and sets the grace.
Subscribed(m, ok) ==
    IF m.mode = "ws" /\ ~ok
    THEN [mode |-> "local", grace |-> LocalModeGrace]
    ELSE m

\* The products the stall check finds stalled: out of grace, a close seen,
\* and none for StallS.
Stalled ==
    {c \in coin_ids : /\ ~(now < stall_grace_until[c])
                      /\ last_candle_close_ts[c] # 0
                      /\ now - last_candle_close_ts[c] >= StallS}

\* The majority flip: in ws mode, when the share of stalled products
\* reaches the threshold.
MajorityFlipped(stalled) ==
    IF candle_mode = "ws"
       /\ 100 * Cardinality(stalled) >= MajorityPct * Max(1, Cardinality(coin_ids))
    THEN [mode |-> "local", grace |-> LocalModeGrace]
    ELSE [mode |-> candle_mode, grace |-> stall_grace_until]

\* The flip after repeated hard reconnects for stalls sets the mode only.
StallFlipped(m, total) ==
    IF stall_flip_to_local_after > 0 /\ m.mode # "local"
       /\ total >= stall_flip_to_local_after
    THEN [m EXCEPT !.mode = "local"]
    ELSE m

\* The candle-stall check of run_ws_forever and of _watchdog_loop (the same
\* code in both).  A healthy check resets the window count.  A stalled
\* check inside the cooldown only counts a window; one outside it
\* resubscribes, counts, and at stall_hard_reconnect_after windows forces a
\* reconnect (_force_reconnect subscribes again and restarts the idle
\* timer).
StallCheck ==
    /\ ~stop_requested
    /\ stall_total < MaxStalls
    /\ LET stalled == Stalled
           flipped == MajorityFlipped(stalled)
           acts == ~(now - last_stall_action_ts < StallCooldown)
           windows == Min(consecutive_stall_windows + 1, MaxWindows)
           hard == acts /\ windows >= Max(1, stall_hard_reconnect_after)
       IN  IF stalled = {}
           THEN /\ consecutive_stall_windows' = 0
                /\ wd' = [tick |-> 1 - wd.tick, kind |-> "healthy",
                          stalled |-> {}, resubs |-> 0]
                /\ UNCHANGED <<candle_mode, stall_grace_until, last_stall_action_ts,
                               stall_total, last_msg_ts, reconnect_tries>>
           ELSE \E ok1 \in BOOLEAN : \E ok2 \in BOOLEAN :
                LET resubbed == IF acts THEN Subscribed(flipped, ok1) ELSE flipped
                    again == IF hard THEN Subscribed(resubbed, ok2) ELSE resubbed
                    m == IF hard THEN StallFlipped(again, stall_total + 1) ELSE again
                IN  /\ ~acts => ok1 /\ ok2
                    /\ ~hard => ok2
                    /\ candle_mode' = m.mode
                    /\ stall_grace_until' = m.grace
                    /\ last_stall_action_ts' = IF acts THEN now ELSE last_stall_action_ts
                    /\ consecutive_stall_windows' = IF hard THEN 0 ELSE windows
                    /\ stall_total' = IF hard THEN stall_total + 1 ELSE stall_total
                    /\ reconnect_tries' = IF hard THEN Min(reconnect_tries + 1, MaxTries)
                                          ELSE reconnect_tries
                    /\ last_msg_ts' = IF hard THEN now ELSE last_msg_ts
                    /\ wd' = [tick |-> 1 - wd.tick,
                              kind |-> IF hard THEN "reconnected"
                                       ELSE IF acts THEN "resubscribed" ELSE "debounced",
                              stalled |-> stalled,
                              resubs |-> IF acts THEN Min(wd.resubs + 1, MaxWindows)
                                         ELSE wd.resubs]
    /\ UNCHANGED <<now, last_candle_close_ts, idle_reconnects, wpc, idle_rc_ts>>
    /\ WatchFrame

\* _maybe_warn_and_recover_idle up to its decision: idle is measured
\* against _last_msg_ts, and at ws_idle_reconnect_s the context goes on to
\* _force_reconnect.
IdleCheck(t) ==
    /\ ~stop_requested
    /\ wpc[t] = "idle"
    /\ now - last_msg_ts >= IdleS
    /\ idle_reconnects < MaxTries
    /\ wpc' = [wpc EXCEPT ![t] = "reconnect"]
    /\ UNCHANGED <<now, candle_mode, stallVars, last_msg_ts, reconnect_tries,
                   idle_reconnects, idle_rc_ts>>
    /\ WatchFrame

\* _force_reconnect("idle ..."): the counters, then under _ws_lock close,
\* open, _subscribe_all and the restart of the idle timer; back in
\* _maybe_warn_and_recover_idle, the flip to local candles after repeated
\* reconnects.
IdleReconnect(t) ==
    /\ wpc[t] = "reconnect"
    /\ \E ok \in BOOLEAN :
       LET tries == Min(reconnect_tries + 1, MaxTries)
           sub == Subscribed([mode |-> candle_mode, grace |-> stall_grace_until], ok)
           m == IF ws_idle_flip_to_local_after > 0
                   /\ tries >= ws_idle_flip_to_local_after /\ sub.mode # "local"
                THEN [mode |-> "local", grace |-> LocalModeGrace]
                ELSE sub
       IN  /\ candle_mode = "local" => ok
           /\ reconnect_tries' = tries
           /\ idle_reconnects' = idle_reconnects + 1
           /\ last_msg_ts' = now
           /\ idle_rc_ts' = now
           /\ candle_mode' = m.mode
           /\ stall_grace_until' = m.grace
    /\ wpc' = [wpc EXCEPT ![t] = "idle"]
    /\ UNCHANGED <<now, last_candle_close_ts, consecutive_stall_windows,
                   last_stall_action_ts, stall_total, wd>>
    /\ WatchFrame

\* on_ws_message: any message restarts the idle timer.
WsMessage ==
    /\ last_msg_ts # now
    /\ last_msg_ts' = now
    /\ UNCHANGED <<now, candle_mode, stallVars, reconnect_tries, idle_reconnects,
                   wpc, idle_rc_ts>>
    /\ WatchFrame

\* _on_candle_close stamps the product's last close.
CandleCloseSeen ==
    /\ \E c \in coin_ids :
          /\ last_candle_close_ts[c] # now
          /\ last_candle_close_ts' = [last_candle_close_ts EXCEPT ![c] = now]
    /\ UNCHANGED <<now, candle_mode, stall_grace_until, consecutive_stall_windows,
                   last_stall_action_ts, stall_total, wd, idleVars>>
    /\ WatchFrame

\* Time passes.
Clock ==
    /\ now < MaxClock
    /\ now' = now + 1
    /\ UNCHANGED <<candle_mode, stallVars, idleVars>>
    /\ WatchFrame

\* The housekeeping of both contexts against a stream that may fall silent
\* and candles that may stop closing, for every escalation setting.
InitWatchdog ==
    /\ StartupCore(processed_fills_max_default, {{}}, {0}, Backfilled, {0})
    /\ warmup = "done"
    /\ seeded = [c \in Coins |-> <<last_candle_start[c]>>]
    /\ Running
    /\ Watching(1..MaxHardAfter, {0, 1}, {0, 1})
    /\ Unsettled
    /\ NoFlight
    /\ NoFrame
    /\ NoBuyers
    /\ Flushed
    /\ NoCaller
    /\ arg = NoArg /\ res = NoRes
    /\ prefer_maker = TRUE
    /\ prefer_maker_for_sells = TRUE
    /\ answers = TypicalAnswers
NextWatchdog ==
    \/ StallCheck
    \/ \E t \in Housekeepers : IdleCheck(t) \/ IdleReconnect(t)
    \/ WsMessage
    \/ CandleCloseSeen
    \/ Clock
SpecWatchdog == InitWatchdog /\ [][NextWatchdog]_vars

\* ---------------------------------------------------------- reconcile_now
\* reconcile_now thread by thread: the test of _reconciling, the
\* assignment, the sweep, the finally clause.  No lock joins the test to
\* the assignment.
FlightFrame ==
    UNCHANGED <<processed_fills_max, orderVars, lock, candleThr, rpc, rctx,
                sweeps, envVars, opening, prior, ev, run, sigVars, pipeVars,
                probeVars, tradeCfg, bootVars, shutVars, stallVars, idleVars,
                wdCfg, settleVars, frameVars, capVars, diskVars, callVars>>

\* reconcile_now: `if getattr(self, "_reconciling", False): return`.  A
\* caller that finds the flag set returns at once and changes nothing.
NowTest(t) ==
    /\ fpc[t] = "idle"
    /\ ~reconciling
    /\ fpc' = [fpc EXCEPT ![t] = "set"]
    /\ UNCHANGED <<ledgerVars, applied, reconciling>>
    /\ FlightFrame

\* reconcile_now: `self._reconciling = True`.
NowSet(t) ==
    /\ fpc[t] = "set"
    /\ reconciling' = TRUE
    /\ fpc' = [fpc EXCEPT ![t] = "sweep"]
    /\ UNCHANGED <<ledgerVars, applied>>
    /\ FlightFrame

\* reconcile_recent_fills over the fills, oldest first: a fill whose
\* fingerprint is not in the index is applied and its fingerprint added.
RECURSIVE SweepOver(_, _)
SweepOver(st, fills) ==
    IF fills = <<>> THEN st
    ELSE LET f == Head(fills)
             fp == _fill_fingerprint(f)
         IN  SweepOver(IF Has(st.idx, fp) THEN st
                       ELSE [L |-> ReconcileApply(st.L, f),
                             idx |-> Add(st.idx, fp),
                             got |-> st.got \cup {f}],
                       Tail(fills))

\* reconcile_now: the sweep runs (here in one step) and ends.
NowSweep(t) ==
    /\ fpc[t] = "sweep"
    /\ lock = "free"
    /\ \E st \in {SweepOver([L |-> Ledger, idx |-> processed, got |-> {}],
                            SortByTime(exchange))} :
          /\ positions' = st.L.positions
          /\ cost_basis' = st.L.cost_basis
          /\ realized_pnl' = st.L.realized_pnl
          /\ processed' = IF st.got # {} THEN Prune(st.idx, processed_fills_max)
                          ELSE processed
          /\ applied' = [f \in Fills |-> applied[f] + IF f \in st.got THEN 1 ELSE 0]
    /\ fpc' = [fpc EXCEPT ![t] = "clear"]
    /\ UNCHANGED reconciling
    /\ FlightFrame

\* reconcile_now: `finally: self._reconciling = False`.
NowClear(t) ==
    /\ fpc[t] = "clear"
    /\ reconciling' = FALSE
    /\ fpc' = [fpc EXCEPT ![t] = "idle"]
    /\ UNCHANGED <<ledgerVars, applied>>
    /\ FlightFrame

\* The callers against one another, with fills at the exchange that the
\* ledger may not have seen yet.
InitFlight == Startup(processed_fills_max_default, {{F1}, {F1, F2}}, {MaxLive}, Backfilled)
NextFlight ==
    \E t \in ReconcileCallers : NowTest(t) \/ NowSet(t) \/ NowSweep(t) \/ NowClear(t)
SpecFlight == InitFlight /\ [][NextFlight]_vars

\* ----------------------------------------------------------- settle queue
\* Local candles of BarLen seconds; a close waits SettleDelay on the queue
\* (local_close_settle_ms); the first tick of a product seeds its stall
\* grace for max(1, granularity / 4).
BarLen == 2
SettleDelay == 1
SeedGrace == 1

\* CandleBuilder._bucket_start.
_bucket_start(ts) == (ts \div BarLen) * BarLen

\* CandleBuilder.update: the builder's new start and the bar it closed,
\* -1 for None.
BuilderUpdate(start, ts) ==
    LET bs == _bucket_start(ts)
    IN  [start |-> bs,
         closed |-> IF start # -1 /\ bs # start THEN start ELSE -1]

\* A flush that empties the queue whatever the time (mutant of
\* Releasable).
ReleasableAtOnce(q, now_ts) == Len(q)

\* _flush_local_settle, the loop condition: how many entries leave the
\* head of the queue at now_ts.
RECURSIVE Releasable(_, _)
Releasable(q, now_ts) ==
    IF q # <<>> /\ Head(q).release <= now_ts
    THEN 1 + Releasable(Tail(q), now_ts)
    ELSE 0

\* _on_candle_close as the queue sees it: the close is handed on (at the
\* message time at) and the product's last close is stamped.
HandOn(st, e, at) ==
    [st EXCEPT !.handed = Append(@, [pid |-> e.pid, start |-> e.start,
                                     release |-> e.release, tick |-> e.tick,
                                     at |-> at]),
               !.close_ts[e.pid] = now]

\* _flush_local_settle(now_ts) in local mode.
RECURSIVE FlushFirst(_, _, _)
FlushFirst(st, k, now_ts) ==
    IF k = 0 THEN st
    ELSE FlushFirst(HandOn([st EXCEPT !.q = Tail(@)], Head(st.q), now_ts),
                    k - 1, now_ts)

_flush_local_settle(st, now_ts) ==
    IF st.mode # "local" THEN st
    ELSE FlushFirst(st, Releasable(st.q, now_ts), now_ts)

\* on_ws_message, channel "ticker", one ticker of the message: in local
\* mode the builder takes the tick, the grace of the product is seeded if
\* none is active, and a closed bar is queued with its release time (or
\* handed on at once when no settle delay is configured).
TakeTicker(st, pid, ts_now) ==
    IF st.mode # "local" THEN st
    ELSE LET u == BuilderUpdate(st.b[pid], ts_now)
             st1 == [st EXCEPT !.b[pid] = u.start,
                               !.grace[pid] = IF now >= @ THEN now + SeedGrace ELSE @]
             e == [release |-> ts_now + SettleDelay, pid |-> pid,
                   start |-> u.closed, tick |-> ts_now]
         IN  IF u.closed = -1 THEN st1
             ELSE IF SettleDelay > 0 THEN [st1 EXCEPT !.q = Append(@, e)]
             ELSE HandOn(st1, [e EXCEPT !.release = ts_now], ts_now)

RECURSIVE TakeTickers(_, _, _)
TakeTickers(st, tickers, ts_now) ==
    IF tickers = <<>> THEN st
    ELSE TakeTickers(TakeTicker(st, Head(tickers), ts_now), Tail(tickers), ts_now)

\* The tickers one message may carry, in their order.
TickerLists ==
    {<<>>} \cup {<<c>> : c \in coin_ids}
           \cup {x \in coin_ids \X coin_ids : x[1] # x[2]}

\* on_ws_message for a ticker message stamped with the current second or,
\* when late, the one before: the idle timer restarts; unless shutdown was requested the
\* queue is flushed at the message time, the tickers are taken, and the
\* queue is flushed again.
TickerMessage(late) ==
    /\ late => now > 1
    /\ \E tickers \in TickerLists :
       \E ts_now \in {IF late THEN now - 1 ELSE now} :
       \E st0 \in {[mode |-> candle_mode, b |-> builders, q |-> settle_q,
                    handed |-> handed, close_ts |-> last_candle_close_ts,
                    grace |-> stall_grace_until]} :
       \E st \in {IF stop_requested THEN st0
                  ELSE _flush_local_settle(
                          TakeTickers(_flush_local_settle(st0, ts_now),
                                      tickers, ts_now), ts_now)} :
          /\ Len(st.q) + Len(st.handed) <= MaxQueued
          /\ last_msg_ts' = now
          /\ builders' = st.b
          /\ settle_q' = st.q
          /\ handed' = st.handed
          /\ last_candle_close_ts' = st.close_ts
          /\ stall_grace_until' = st.grace
    /\ UNCHANGED <<now, candle_mode, consecutive_stall_windows,
                   last_stall_action_ts, stall_total, wd, reconnect_tries,
                   idle_reconnects, wpc, idle_rc_ts>>
    /\ StreamFrame

\* The stream of ticker messages against the clock, the fall-back to local
\* candles and shutdown.
InitSettle ==
    /\ Startup(processed_fills_max_default, {{}}, {0}, Backfilled)
    /\ prefer_maker /\ prefer_maker_for_sells
NextSettle ==
    \/ \E late \in BOOLEAN : TickerMessage(late)
    \/ Clock
    \/ FlipToLocal
    \/ RequestShutdown
SpecSettle == InitSettle /\ [][NextSettle]_vars

\* Time passes, and ticker messages stamped with the current time keep
\* arriving.
SpecSettleFair ==
    SpecSettle /\ WF_vars(Clock) /\ WF_vars(TickerMessage(FALSE))

\* -------------------------------------------------- pure functions
\* The start of a check of a pure function: the bot as constructed on a
\* first run, the function's first arguments drawn from args.
StartupProbe(args) ==
    /\ StartupCore(processed_fills_max_default, {{}}, {0}, Backfilled, {0})
    /\ Constructed
    /\ arg \in args
    /\ res = NoRes
    /\ prefer_maker = TRUE
    /\ prefer_maker_for_sells = TRUE
    /\ answers = TypicalAnswers

\* Arguments of _quartermaster_exit_ok: prices around an entry of 200 (and
\* a missing entry), hold times around max_hold_hours, MACD histograms
\* around +-0.40 and none.
QmArgs ==
    [f : {"qm"}, last_price : {0, 197, 203, 204, 211, 212, 213},
     entry_price : {0, 200}, hold_hours : {0, 23, 24, 30},
     macd_known : BOOLEAN, macd_hist : {-90, -40, 10, 40, 41, 90}]

\* _quartermaster_exit_ok is called.
CallQuartermasterExit ==
    /\ arg.f = "qm" /\ res = NoRes
    /\ res' = [f |-> "qm", a |-> arg,
               reason |-> _quartermaster_exit_ok(arg.last_price, R(arg.entry_price),
                                                 arg.hold_hours, arg.macd_known,
                                                 arg.macd_hist)]
    /\ UNCHANGED <<ledgerVars, orderVars, lock, candleThr, reconThr, envVars,
                   histVars, sigVars, pipeVars, arg, cfgVars>>

InitQuartermaster == StartupProbe(QmArgs)
SpecQuartermaster == InitQuartermaster /\ [][CallQuartermasterExit]_vars

\* Arguments of the maker SELL clamp: the base size compute_maker_limit
\* returned, the cached position and the live available balance.
ClampArgs ==
    [f : {"clamp"}, base_size : 0..MaxClamp, position : 0..MaxClamp,
     live_avail : 0..MaxClamp]

\* place_order's maker SELL clamp is run.
CallMakerSellClamp ==
    /\ arg.f = "clamp" /\ res = NoRes
    /\ res' = [f |-> "clamp", a |-> arg,
               size |-> MakerSellClamp(arg.base_size, arg.position, arg.live_avail)]
    /\ UNCHANGED <<ledgerVars, orderVars, lock, candleThr, reconThr, envVars,
                   histVars, sigVars, pipeVars, arg, cfgVars>>

InitClamp == StartupProbe(ClampArgs)
SpecClamp == InitClamp /\ [][CallMakerSellClamp]_vars

\* The index at the end of an ingestion batch: held fingerprints from
\* before, in insertion order, then the batch's new ones.
Batched(held, batch) == [i \in 1..(held + batch) |-> i]

\* A configured cap, an index within it, and a batch of new fills.
PruneArgs ==
    {a \in [f : {"prune"}, max_keys : 1..MaxKeys, held : 0..MaxKeys,
            batch : 1..MaxBatch] : a.held <= a.max_keys}

\* The end of a batch that ingested something: ProcessedFills.prune.
CallPrune ==
    /\ arg.f = "prune" /\ res = NoRes
    /\ res' = [f |-> "prune", before |-> Batched(arg.held, arg.batch),
               idx |-> Prune(Batched(arg.held, arg.batch), arg.max_keys)]
    /\ UNCHANGED <<ledgerVars, orderVars, lock, candleThr, reconThr, envVars,
                   histVars, sigVars, pipeVars, arg, cfgVars>>

InitPrune == StartupProbe(PruneArgs)
SpecPrune == InitPrune /\ [][CallPrune]_vars

\* ------------------------------------------------- float arithmetic
(***************************************************************************)
(* Python floats are IEEE-754 binary64.  The prices and increments the     *)
(* order helpers receive are decimal numerals, which binary64 does not     *)
(* hold exactly, so value / inc is computed as the source computes it:     *)
(* each operation returns the binary64 nearest (ties to even) to the exact *)
(* result.  Naturals wider than the checker's integers are little-endian   *)
(* sequences of 15-bit limbs; a positive float is [m, e] with              *)
(* 2^52 <= m < 2^53 standing for m * 2^e, and FZero is 0.0.  All floats on *)
(* this path are non-negative and far from the exponent limits.            *)
(***************************************************************************)
Limb == 2 ^ 15

BLimb(a, i) == IF i >= 1 /\ i <= Len(a) THEN a[i] ELSE 0

\* a without its leading zero limbs
BTop(a) ==
    IF \A i \in 1..Len(a) : a[i] = 0 THEN 0
    ELSE CHOOSE i \in 1..Len(a) : a[i] # 0 /\ \A j \in (i + 1)..Len(a) : a[j] = 0

BTrim(a) == SubSeq(a, 1, BTop(a))

\* the limbs of a natural below 2^31, and back
BN(n) == BTrim(<<n % Limb, (n \div Limb) % Limb, n \div (Limb * Limb)>>)

BVal(a) == BLimb(a, 1) + Limb * BLimb(a, 2) + Limb * Limb * BLimb(a, 3)

\* a + b + c for a carry c of 0 or 1; the carry into limb i comes from a
\* limb below that overflows, through limbs that are full
LimbSum(a, b, i) == BLimb(a, i) + BLimb(b, i)

Carry(a, b, c, i) ==
    \/ \E j \in 1..(i - 1) :
          /\ LimbSum(a, b, j) >= Limb
          /\ \A k \in (j + 1)..(i - 1) : LimbSum(a, b, k) = Limb - 1
    \/ c = 1 /\ \A k \in 1..(i - 1) : LimbSum(a, b, k) = Limb - 1

BAddC(a, b, c) ==
    BTrim([i \in 1..(Max(Len(a), Len(b)) + 1) |->
              (LimbSum(a, b, i) + (IF Carry(a, b, c, i) THEN 1 ELSE 0)) % Limb])

BAdd(a, b) == BAddC(a, b, 0)

\* a - b for a >= b; the borrow from limb i likewise
LimbDiff(a, b, i) == a[i] - BLimb(b, i)

Borrow(a, b, i) ==
    \E j \in 1..(i - 1) :
       /\ LimbDiff(a, b, j) < 0
       /\ \A k \in (j + 1)..(i - 1) : LimbDiff(a, b, k) = 0

BSub(a, b) ==
    BTrim([i \in 1..Len(a) |->
              (LimbDiff(a, b, i) - (IF Borrow(a, b, i) THEN 1 ELSE 0) + Limb) % Limb])

\* sign of a - b
BCmp(a, b) ==
    IF Len(a) > Len(b) THEN 1
    ELSE IF Len(a) < Len(b) THEN -1
    ELSE IF \A i \in 1..Len(a) : a[i] = b[i] THEN 0
    ELSE IF \E i \in 1..Len(a) :
               a[i] > b[i] /\ \A j \in (i + 1)..Len(a) : a[j] = b[j]
         THEN 1 ELSE -1

BDbl(a) == BAddC(a, a, 0)

BOdd(a) == a # <<>> /\ a[1] % 2 = 1

\* a * 2^k and a \div 2^k: whole limbs first, then the k % 15 bits
BShlBits(a, p) ==
    BTrim([i \in 1..(Len(a) + 1) |->
              ((BLimb(a, i) * p) % Limb) + ((BLimb(a, i - 1) * p) \div Limb)])

BShl(a, k) ==
    IF a = <<>> \/ k <= 0 THEN a
    ELSE [i \in 1..(k \div 15) |-> 0] \o BShlBits(a, 2 ^ (k % 15))

BShrBits(a, p) ==
    BTrim([i \in 1..Len(a) |->
              (a[i] \div p) + ((BLimb(a, i + 1) % p) * (Limb \div p))])

BShr(a, k) ==
    IF k <= 0 THEN a
    ELSE IF k \div 15 >= Len(a) THEN <<>>
    ELSE BShrBits(SubSeq(a, k \div 15 + 1, Len(a)), 2 ^ (k % 15))

BHalf(a) == BShr(a, 1)

\* a * k for 0 <= k <= Limb: the low halves of the limb products plus
\* their high halves one limb up
BMulSmall(a, k) ==
    BAdd([i \in 1..Len(a) |-> (a[i] * k) % Limb],
         <<0>> \o [i \in 1..Len(a) |-> (a[i] * k) \div Limb])

\* a * b, by the halves of b
RECURSIVE BMul(_, _)
BMul(a, b) ==
    IF a = <<>> \/ b = <<>> THEN <<>>
    ELSE IF Len(b) = 1 THEN BMulSmall(a, b[1])
    ELSE BAdd(BMul(a, SubSeq(b, 1, Len(b) \div 2)),
              [i \in 1..(Len(b) \div 2) |-> 0]
                  \o BMul(a, SubSeq(b, Len(b) \div 2 + 1, Len(b))))

\* bits of a limb, bits of a
Bits(n) == Cardinality({k \in 0..14 : 2 ^ k <= n})

BitLen(a) == IF a = <<>> THEN 0 ELSE 15 * (Len(a) - 1) + Bits(a[Len(a)])

Mantissa == 53

FZero == [m |-> <<>>, e |-> 0]

\* Long division of n by d, limb by limb from the top, for a d whose top
\* limb has its top bit set: the next quotient limb is at most two below its
\* estimate from the top limbs.
QHat(r, d) ==
    Min(Limb - 1,
        (BLimb(r, Len(d) + 1) * Limb + BLimb(r, Len(d))) \div d[Len(d)])

Digit(r, d) ==
    CHOOSE t \in Max(0, QHat(r, d) - 2)..QHat(r, d) :
        BCmp(BMulSmall(d, t), r) <= 0 /\ BCmp(BMulSmall(d, t + 1), r) > 0

DivDigit(q, r, d, t) == <<(<<t>>) \o q, BSub(r, BMulSmall(d, t))>>

\* qr = <<quotient, remainder>> so far; a limb of n is brought down
LongStep(qr, limb, d) ==
    CHOOSE x \in {DivDigit(qr[1], r, d, Digit(r, d)) :
                     r \in {BTrim(<<limb>> \o qr[2])}} : TRUE

RECURSIVE LongDiv(_, _, _, _)
LongDiv(qr, n, d, i) ==
    IF i = 0 THEN <<BTrim(qr[1]), qr[2]>>
    ELSE CHOOSE x \in {LongDiv(next, n, d, i - 1) :
                          next \in {LongStep(qr, n[i], d)}} : TRUE

Divide(n, d) ==
    LongDiv(<<(<<>>), BTrim(SubSeq(n, Len(n) - Len(d) + 2, Len(n)))>>,
            n, d, Len(n) - Len(d) + 1)

\* The steps of rounding a quotient to 53 bits, last to first: the
\* significand q at exponent e, renormalised when rounding carried out;
Renormal(q, e) ==
    IF BitLen(q) > Mantissa
    THEN [m |-> BHalf(q), e |-> e - (Mantissa - 1) + 1]
    ELSE [m |-> q, e |-> e - (Mantissa - 1)]

\* ties to even, c being the sign of 2 * remainder - divisor;
HalfEven(qr, c, e) ==
    Renormal(IF c > 0 \/ (c = 0 /\ BOdd(qr[1]))
             THEN BAddC(qr[1], <<>>, 1) ELSE qr[1], e)

Tie(qr, d, e) == HalfEven(qr, BCmp(BDbl(qr[2]), d), e)

\* the 53 bits of n / d for d <= n < 2 * d;
RoundAligned(n, d, e) ==
    CHOOSE x \in {Tie(qr, d, e) : qr \in {Divide(BShl(n, Mantissa - 1), d)}} : TRUE

\* n and d of equal bit length, n doubled when it is below d;
RoundScaled(n, d, e) ==
    IF BCmp(n, d) < 0 THEN RoundAligned(BDbl(n), d, e - 1)
    ELSE RoundAligned(n, d, e)

\* n and d shifted to the bit length of the longer, and on to a whole
\* number of limbs.
TopShift(l) == (15 - (l % 15)) % 15

Shifted(n, d, ln, ld) ==
    <<BShl(n, Max(ld - ln, 0) + TopShift(Max(ln, ld))),
      BShl(d, Max(ln - ld, 0) + TopShift(Max(ln, ld)))>>

\* the binary64 nearest to (n / d) * 2^e, ties to even (n >= 0, d > 0);
\* RoundQuot works n and d out first
RoundBig(n, d, e) ==
    IF n = <<>> THEN FZero
    ELSE CHOOSE x \in {RoundScaled(nd[1], nd[2], e + BitLen(n) - BitLen(d)) :
                          nd \in {Shifted(n, d, BitLen(n), BitLen(d))}} : TRUE

RoundQuot(n, d, e) == CHOOSE x \in {RoundBig(a, b, e) : a \in {n}, b \in {d}} : TRUE

\* float(k) for a natural held as limbs, and the float of a decimal numeral n/d
FromBig(k) == RoundQuot(k, <<1>>, 0)
FromInt(k) == FromBig(BN(k))
Dec(n, d) == RoundQuot(BN(n), BN(d), 0)

fdiv(x, y) == RoundQuot(x.m, y.m, x.e - y.e)
fmul(x, y) == RoundQuot(BMul(x.m, y.m), <<1>>, x.e + y.e)

Aligned(x, lo) == BShl(x.m, x.e - lo)

LowExp(x, y) == IF x.e < y.e THEN x.e ELSE y.e

AddAt(x, y, lo) == RoundQuot(BAdd(Aligned(x, lo), Aligned(y, lo)), <<1>>, lo)
SubAt(x, y, lo) == RoundQuot(BSub(Aligned(x, lo), Aligned(y, lo)), <<1>>, lo)

fadd(x, y) ==
    IF x = FZero THEN y ELSE IF y = FZero THEN x ELSE AddAt(x, y, LowExp(x, y))

\* x < y
flt(x, y) ==
    IF y = FZero THEN FALSE
    ELSE IF x = FZero THEN TRUE
    ELSE x.e < y.e \/ (x.e = y.e /\ BCmp(x.m, y.m) < 0)

\* x - y for x >= y
fsub(x, y) == IF y = FZero THEN x ELSE SubAt(x, y, LowExp(x, y))

\* int(x) for x >= 0: the whole part, as limbs
int(x) == IF x.e >= 0 THEN BShl(x.m, x.e) ELSE BShr(x.m, 0 - x.e)

\* round_down_to_inc and round_up_to_inc on floats: <<steps, steps * inc>>
\* (inc > 0; steps is the whole number the source multiplies by inc).
StepsOf(steps, inc) == <<steps, fmul(FromBig(steps), inc)>>

float_round_down_to_inc(value, inc) ==
    CHOOSE x \in {StepsOf(int(q), inc) : q \in {fdiv(value, inc)}} : TRUE

Epsilon == RoundQuot(<<1>>, BMul(BN(1000000), BN(1000000)), 0)

\* cand is int(value / inc) * inc, one more increment when it fell short
Repaired(value, inc, cand) ==
    IF flt(cand[2], fsub(value, Epsilon))
    THEN StepsOf(BAddC(cand[1], <<>>, 1), inc) ELSE cand

float_round_up_to_inc(value, inc) ==
    Repaired(value, inc, float_round_down_to_inc(value, inc))

\* A price argument: given (not None) or not, and its decimal numeral in
\* ten-thousandths.
NoQuote == [given |-> FALSE, v |-> 0]
Quote(v) == [given |-> TRUE, v |-> v]

\* The reference price compute_maker_limit starts from.
MakerRef(side, last_price, bid, ask) ==
    IF side = "BUY"
    THEN IF bid.given /\ bid.v > 0 THEN bid.v ELSE last_price
    ELSE IF ask.given /\ ask.v > 0 THEN ask.v ELSE last_price

\* compute_maker_limit on floats; prices and the price increment arrive as
\* the floats of decimal numerals in ten-thousandths, base_inc is 1e-8.
\* its steps in order: the limit price lim = <<steps, price>> from the
\* reference and the offset, then the base size it buys.
MakerLimit(side, ref, offset, inc) ==
    CHOOSE lim \in
        {IF side = "BUY" THEN float_round_down_to_inc(raw_price, inc)
                         ELSE float_round_up_to_inc(raw_price, inc) :
            raw_price \in
                {fmul(ref, factor) :
                    factor \in {IF side = "BUY" THEN fsub(FromInt(1), offset)
                                                ELSE fadd(FromInt(1), offset)}}} : TRUE

MakerSized(lim, usd) ==
    [limit_price |-> lim[2],
     base_size |->
        IF lim[2] # FZero
        THEN CHOOSE b \in {float_round_down_to_inc(size, b_inc)[2] :
                              size \in {fdiv(FromInt(usd), lim[2])},
                              b_inc \in {Dec(1, 100000000)}} : TRUE
        ELSE FZero,
     steps |-> BVal(lim[1])]

float_compute_maker_limit(side, last_price, inc, usd, offset_bps, bid, ask) ==
    CHOOSE out \in
        {MakerSized(lim, usd) :
            lim \in {MakerLimit(side, ref, offset, p_inc) :
                        ref \in {Dec(MakerRef(side, last_price, bid, ask), 10000)},
                        offset \in {fdiv(FromInt(offset_bps), FromInt(10000))},
                        p_inc \in {Dec(inc, 10000)}}} : TRUE

\* Arguments of compute_maker_limit: a price increment of 0.01; last prices
\* 0.0399, 0.0301, 0.29, 12.50 and 8540.00; bid and ask absent, zero or
\* present; no offset or the configured one.
MakerArgs ==
    [f : {"maker"}, side : {"BUY", "SELL"},
     last_price : {399, 301, 2900, 125000, 85400000},
     price_inc : {100},
     offset_bps : {0, maker_offset_bps},
     bid : {NoQuote, Quote(0), Quote(5700)},
     ask : {NoQuote, Quote(0), Quote(5701)}]

\* compute_maker_limit is called.
CallComputeMakerLimit ==
    /\ arg.f = "maker" /\ res = NoRes
    /\ res' = [f |-> "maker", a |-> arg,
               out |-> float_compute_maker_limit(arg.side, arg.last_price,
                                                 arg.price_inc, usd_per_order,
                                                 arg.offset_bps, arg.bid, arg.ask)]
    /\ UNCHANGED <<ledgerVars, orderVars, lock, candleThr, reconThr, envVars,
                   histVars, sigVars, pipeVars, arg, cfgVars>>

InitMaker == StartupProbe(MakerArgs)
SpecMaker == InitMaker /\ [][CallComputeMakerLimit]_vars

\* Comparisons and bounds on floats (none is negative here).
fle(x, y) == ~flt(y, x)
fmin(x, y) == IF flt(y, x) THEN y ELSE x
fmax(x, y) == IF flt(x, y) THEN y ELSE x
fabsdiff(x, y) == IF flt(x, y) THEN fsub(y, x) ELSE fsub(x, y)

\* 10^-15 and 10^-18 as Python reads the literals 1e-15 and 1e-18
BPow10(k) ==
    IF k <= 9 THEN BN(10 ^ k) ELSE BMul(BN(10 ^ 9), BN(10 ^ (k - 9)))

Tiny(k) == RoundQuot(<<1>>, BPow10(k), 0)

\* f"{x:.{dec}f}": the decimal with dec places nearest to x, ties to even,
\* as its count of units of 10^-dec (x.e < 0).
FormatRound(q, c) ==
    BVal(IF c > 0 \/ (c = 0 /\ BOdd(q)) THEN BAddC(q, <<>>, 1) ELSE q)

FormatQuot(n, q, k) ==
    FormatRound(q, BCmp(BDbl(BSub(n, BShl(q, k))), BShl(<<1>>, k)))

FormatScaled(n, k) == FormatQuot(n, BShr(n, k), k)

FormatSteps(x, dec) ==
    IF x = FZero THEN 0 ELSE FormatScaled(BMul(x.m, BPow10(dec)), 0 - x.e)

TrailingZeros(n) ==
    IF n = 0 THEN 0 ELSE Cardinality({k \in 1..9 : n % (10 ^ k) = 0})

\* decimals_from_inc: the decimals left of f"{inc:.10f}" without its
\* trailing zeros.
decimals_from_inc(inc) == 10 - TrailingZeros(FormatSteps(inc, 10))

\* _submit_market_order, SELL branch, on floats: whether an order is sent,
\* whether the dust-suppression window is set, and the base_size string
\* sent as its count of units of 10^-decimals_from_inc(base_inc).
NotSent(dust) == [sent |-> FALSE, dust |-> dust, steps |-> 0]

\* its steps, last to first: the size is formatted and sent;
Sent(base_size, inc) ==
    [sent |-> TRUE, dust |-> FALSE,
     steps |-> CHOOSE n \in {FormatSteps(base_size, dec) :
                                dec \in {decimals_from_inc(inc)}} : TRUE]

\* the rounded size is checked against one increment and the minimum
\* market size;
SellSend(held, rounded, inc, min_mkt) ==
    IF flt(rounded, fsub(inc, Tiny(18))) THEN NotSent(TRUE)
    ELSE IF min_mkt # FZero /\ flt(rounded, min_mkt)
         THEN IF fle(min_mkt, held)
              THEN CHOOSE out \in
                       {Sent(raised[2], inc) :
                           raised \in {float_round_down_to_inc(
                                          fmin(held, fmax(rounded, min_mkt)), inc)}} : TRUE
              ELSE NotSent(TRUE)
    ELSE Sent(rounded, inc)

\* the nudged size is shaved on a full exit and rounded down;
SellShaved(held, nudged, inc, min_mkt) ==
    CHOOSE out \in
        {SellSend(held, rounded[2], inc, min_mkt) :
            rounded \in
                {float_round_down_to_inc(shaved, inc) :
                    shaved \in
                        {IF full_exit_shave_increments > 0
                            /\ fle(fmul(FromInt(full_exit_shave_increments + 1), inc),
                                   held)
                            /\ nudged # FZero
                            /\ fle(fabsdiff(nudged, held),
                                   fadd(fmul(FromInt(2), inc), Tiny(15)))
                         THEN fmax(inc, fsub(held, fmul(FromInt(
                                       full_exit_shave_increments), inc)))
                         ELSE nudged}}} : TRUE

\* the size is snapped to held within half an increment and nudged up;
SellSnapped(held, base_size, inc, min_mkt) ==
    CHOOSE out \in
        {SellShaved(held, nudged, inc, min_mkt) :
            nudged \in {fadd(IF fle(fabsdiff(base_size, held), fmul(Dec(1, 2), inc))
                             THEN held ELSE base_size,
                             fmul(inc, Dec(1, 1000000)))}} : TRUE

\* nothing is sent for less than an increment held, else the size is the
\* smaller of held and the intended quote_usd / last.
SellHeld(held, quote_usd, last, inc, min_mkt) ==
    IF flt(held, fmul(inc, Dec(99, 100))) THEN NotSent(FALSE)
    ELSE CHOOSE out \in
             {SellSnapped(held, base_size, inc, min_mkt) :
                 base_size \in {fmin(held, IF last # FZero
                                           THEN fdiv(quote_usd, last) ELSE held)}} : TRUE

float_market_sell(position, live_avail, quote_usd, last, inc, min_mkt) ==
    CHOOSE out \in
        {SellHeld(held, quote_usd, last, b_inc, min_mkt) :
            held \in {fmin(position, live_avail)}, b_inc \in {inc}} : TRUE

\* Sizes in units of 0.00001, the base increment; the exchange's minimum
\* market size is 0.01.
SizeUnit == 100000
MinMarketUnits == 1000

\* Arguments of the market SELL: cached position and live balance around
\* the minimum, a quote of 30 USD at no cached last price, at 3000 (an
\* intended 0.01) and at 100000 (an intended 0.0003).
MarketSellArgs ==
    [f : {"msell"}, position : {0, 1, 2, 999, 1000, 1001, 2000},
     live_avail : {0, 1, 1000, 2000}, quote_usd : {30}, last : {0, 3000, 100000}]

\* _submit_market_order is called for a SELL.
CallSubmitMarketSell ==
    /\ arg.f = "msell" /\ res = NoRes
    /\ res' = [f |-> "msell", a |-> arg,
               out |-> float_market_sell(Dec(arg.position, SizeUnit),
                                         Dec(arg.live_avail, SizeUnit),
                                         FromInt(arg.quote_usd), FromInt(arg.last),
                                         Dec(1, SizeUnit),
                                         Dec(MinMarketUnits, SizeUnit))]
    /\ UNCHANGED <<ledgerVars, orderVars, lock, candleThr, reconThr, envVars,
                   histVars, sigVars, pipeVars, arg, cfgVars>>

InitMarketSell == StartupProbe(MarketSellArgs)
SpecMarketSell == InitMarketSell /\ [][CallSubmitMarketSell]_vars

\* ------------------------------------------------- the persisted pair
\* processed_fills.json is written by every change of the index
\* (ProcessedFills.add and prune save at once), so processed is also what
\* the file holds.  portfolio.json (saved) is written by _save_portfolio.
DiskFrame ==
    UNCHANGED <<processed_fills_max, orderVars, lock, candleThr, reconThr, envVars,
                opening, prior, ev, run, sigVars, pipeVars, probeVars, tradeCfg,
                bootVars, shutVars, stallVars, idleVars, wdCfg, settleVars,
                flightVars, frameVars, capVars, callVars>>

\* reconcile_recent_fills: the fills of the lookback window are fetched.
DiskSweepStart ==
    /\ kctx.pc = "idle"
    /\ \E f \in exchange : ~Has(processed, _fill_fingerprint(f))
    /\ kctx' = [kctx EXCEPT !.pc = "loop", !.todo = SortByTime(exchange),
                            !.changed = FALSE]
    /\ UNCHANGED <<positions, cost_basis, realized_pnl, processed, applied, saved>>
    /\ DiskFrame

\* reconcile_recent_fills, the loop body: a fill not in the index is
\* applied to the ledger in memory and its fingerprint is added to the
\* index, which is saved.
DiskSweepFill ==
    /\ kctx.pc = "loop" /\ kctx.todo # <<>>
    /\ LET f == Head(kctx.todo)
           fp == _fill_fingerprint(f)
       IN  IF Has(processed, fp)
           THEN /\ kctx' = [kctx EXCEPT !.todo = Tail(@)]
                /\ UNCHANGED <<positions, cost_basis, realized_pnl, processed,
                               applied>>
           ELSE \E L \in {ReconcileApply(Ledger, f)} :
                /\ positions' = L.positions
                /\ cost_basis' = L.cost_basis
                /\ realized_pnl' = L.realized_pnl
                /\ processed' = Add(processed, fp)
                /\ applied' = [applied EXCEPT ![f] = @ + 1]
                /\ kctx' = [kctx EXCEPT !.todo = Tail(@), !.changed = TRUE]
    /\ UNCHANGED saved
    /\ DiskFrame

\* reconcile_recent_fills after the loop: `if changed:` the index is pruned
\* and saved.
DiskSweepPrune ==
    /\ kctx.pc = "loop" /\ kctx.todo = <<>>
    /\ IF kctx.changed
       THEN /\ processed' = Prune(processed, processed_fills_max)
            /\ kctx' = [kctx EXCEPT !.pc = "save"]
       ELSE /\ kctx' = [kctx EXCEPT !.pc = "idle"]
            /\ UNCHANGED processed
    /\ UNCHANGED <<positions, cost_basis, realized_pnl, applied, saved>>
    /\ DiskFrame

\* reconcile_recent_fills: self._save_portfolio().
DiskSavePortfolio ==
    /\ kctx.pc = "save"
    /\ saved' = [L |-> Ledger, applied |-> applied]
    /\ kctx' = [kctx EXCEPT !.pc = "idle", !.changed = FALSE]
    /\ UNCHANGED <<positions, cost_basis, realized_pnl, processed, applied>>
    /\ DiskFrame

\* The process stops where it is: it is killed, the machine goes down, or
\* a shutdown ends it with os._exit.
MaxRestarts == 2
ProcessStops ==
    /\ kctx.pc # "down"
    /\ kctx.restarts < MaxRestarts
    /\ kctx' = [kctx EXCEPT !.pc = "down", !.todo = <<>>, !.changed = FALSE]
    /\ UNCHANGED <<positions, cost_basis, realized_pnl, processed, applied, saved>>
    /\ DiskFrame

\* The bot is started again: __init__ loads portfolio.json and
\* processed_fills.json and clamps the position to the live balance.
Restart ==
    /\ kctx.pc = "down"
    /\ positions' = [c \in Coins |-> StartupClamp(saved.L.positions[c], live[c])]
    /\ cost_basis' = saved.L.cost_basis
    /\ realized_pnl' = saved.L.realized_pnl
    /\ applied' = saved.applied
    /\ kctx' = [kctx EXCEPT !.pc = "idle", !.restarts = @ + 1]
    /\ UNCHANGED <<processed, saved>>
    /\ DiskFrame

\* Sweeps of a single thread over fills already at the exchange, the
\* process stopping and starting again at any point.
InitCrash ==
    Startup(processed_fills_max_default, {{F1, F2}, {F1, F2, F3}}, {MaxLive}, Backfilled)
NextCrash ==
    \/ DiskSweepStart
    \/ DiskSweepFill
    \/ DiskSweepPrune
    \/ DiskSavePortfolio
    \/ ProcessStops
    \/ Restart
SpecCrash == InitCrash /\ [][NextCrash]_vars

\* ------------------------------------------------- relative position (float)
\* The comparison with the band dropped: the short EMA against the long one.
float_rel_no_band(s, l, eps) ==
    IF flt(l, s) THEN 1 ELSE IF flt(s, l) THEN -1 ELSE 0

\* The band edges l * (1.0 + eps) and l * (1.0 - eps) of evaluate_signal.
BandHigh(l, eps) == fmul(l, fadd(FromInt(1), eps))
BandLow(l, eps) == fmul(l, fsub(FromInt(1), eps))

\* rel of evaluate_signal: 1 above the band, -1 below it, 0 inside.
float_rel(s, l, eps) ==
    IF flt(BandHigh(l, eps), s) THEN 1
    ELSE IF flt(s, BandLow(l, eps)) THEN -1 ELSE 0

\* eps = float(ema_deadband_bps) / 10000.0
BpsScale == 10000
float_eps(bps) == fdiv(Dec(bps[1], bps[2]), FromInt(BpsScale))

\* EMA values are kept in hundredths here; 1 / TinyBpsDen is a dead band far
\* narrower than one hundredth at these prices.
EmaUnit == 100
TinyBpsDen == 1000000000
RelLongs == {29, 10000, 854000}
RelOffsets == {-7, -6, -1, 0, 1, 6, 7}
RelBps == {<<0, 1>>, <<6, 1>>, <<9, 2>>, <<1, TinyBpsDen>>}
RelArgs == [f : {"rel"}, l : RelLongs, d : RelOffsets, bps : RelBps]

\* evaluate_signal computes the relative position of the two EMAs.
CallRel ==
    /\ arg.f = "rel" /\ res = NoRes
    /\ res' = [f |-> "rel", a |-> arg,
               out |-> float_rel(Dec(arg.l + arg.d, EmaUnit), Dec(arg.l, EmaUnit),
                                 float_eps(arg.bps))]
    /\ UNCHANGED <<ledgerVars, orderVars, lock, candleThr, reconThr, envVars,
                   histVars, sigVars, pipeVars, arg, cfgVars>>

InitRel == StartupProbe(RelArgs)
SpecRel == InitRel /\ [][CallRel]_vars

\* ------------------------------------------------ live balance at startup
\* cfg.allow_position_fallback_for_avail, absent from config.py.
allow_position_fallback_for_avail == FALSE

\* _acct_cache holds no entry for the base currency.
NoCache == -1

\* What get_accounts does: it raises, it lists no account of the base
\* currency, or it reports an available balance (after holds).
MaxBalance == 3
AccountAnswers ==
    {[kind |-> k, avail |-> 0] : k \in {"error", "missing"}}
        \cup {[kind |-> "balance", avail |-> b] : b \in 0..MaxBalance}

\* _get_live_available_base: a fresh cache entry, else the balance the
\* exchange reports, else a stale cache entry, else the position (if the
\* fallback is allowed) or 0.0.
_get_live_available_base(pos, cached, fresh, answer) ==
    IF cached # NoCache /\ fresh THEN cached
    ELSE IF answer.kind = "balance" THEN answer.avail
    ELSE IF cached # NoCache THEN cached
    ELSE IF allow_position_fallback_for_avail THEN Max(0, pos)
    ELSE 0

LookupArgs ==
    [f : {"avail"}, position : 0..MaxBalance, cached : {NoCache} \cup (0..1),
     fresh : BOOLEAN, answer : AccountAnswers]
BootArgs == [f : {"boot"}, position : 0..MaxBalance, answer : AccountAnswers]

\* _get_live_available_base is called while the bot runs.
CallGetLiveAvailableBase ==
    /\ arg.f = "avail" /\ res = NoRes
    /\ res' = [f |-> "avail", a |-> arg,
               out |-> _get_live_available_base(arg.position, arg.cached,
                                                arg.fresh, arg.answer)]
    /\ UNCHANGED <<ledgerVars, orderVars, lock, candleThr, reconThr, envVars,
                   histVars, sigVars, pipeVars, arg, cfgVars>>

\* __init__: the clamp of the loaded position, with the account cache still
\* empty; out is the position after it.
CallStartupClamp ==
    /\ arg.f = "boot" /\ res = NoRes
    /\ res' = [f |-> "boot", a |-> arg,
               out |-> StartupClamp(arg.position,
                          _get_live_available_base(arg.position, NoCache, FALSE,
                                                   arg.answer))]
    /\ UNCHANGED <<ledgerVars, orderVars, lock, candleThr, reconThr, envVars,
                   histVars, sigVars, pipeVars, arg, cfgVars>>

InitBoot == StartupProbe(LookupArgs \cup BootArgs)
NextBoot == CallGetLiveAvailableBase \/ CallStartupClamp
SpecBoot == InitBoot /\ [][NextBoot]_vars

\* ------------------------------------------------------------------ claims
Ingested(f) == applied[f] + (IF f \in prior THEN 1 ELSE 0)

\* C1: replaying a fill list that has already been ingested (every fill the
\* exchange reports was applied before) leaves quantity, cost basis and
\* realized P&L as they are, whichever path replays it and however often.
C1_ReplayChangesNothing ==
    [][((\A f \in exchange : Ingested(f) >= 1) /\ exchange' = exchange)
          => <<positions, cost_basis, realized_pnl>>' =
             <<positions, cost_basis, realized_pnl>>]_vars

\* C2: under every interleaving of the immediate path and a sweep, the
\* effect of a fill is applied at most once.
C2_AppliedAtMostOnce == \A f \in Fills : Ingested(f) <= 1

\* C5: a SELL fill books sellQty = min(size, qty) at (price - cost basis)
\* less the fee, lowers the quantity by sellQty, and resets the cost basis
\* to 0 exactly when the quantity reaches 0.
C5_SellFill ==
    [][\A f \in Fills :
          (f.side = "SELL" /\ applied'[f] = applied[f] + 1) =>
             LET c == f.product_id
                 sellQty == Min(f.size, positions[c])
             IN  /\ realized_pnl' =
                       RSub(RAdd(realized_pnl,
                                 RMul(R(sellQty), RSub(R(f.price), cost_basis[c]))),
                            R(f.fee))
                 /\ positions'[c] = positions[c] - sellQty
                 /\ cost_basis'[c] = IF positions'[c] = 0 THEN R(0) ELSE cost_basis[c]]_vars

\* qty 1 at cost 101, SELL 1 @ 110 fee 1: P&L +8, quantity 0, cost basis 0.
C5_Witness ==
    /\ applied[F1] = 1 /\ applied[F2] = 1
    /\ opening["ETH-USD"] = 0
    /\ realized_pnl = R(8)
    /\ positions["ETH-USD"] = 0
    /\ cost_basis["ETH-USD"] = R(0)

RECURSIVE SumSize(_)
SumSize(S) ==
    IF S = {} THEN 0
    ELSE LET f == CHOOSE x \in S : TRUE IN f.size + SumSize(S \ {f})
RECURSIVE SumCost(_)
SumCost(S) ==
    IF S = {} THEN 0
    ELSE LET f == CHOOSE x \in S : TRUE
         IN  f.size * f.price + f.fee + SumCost(S \ {f})

AppliedTo(c) == {f \in Fills : f.product_id = c /\ applied[f] >= 1}

\* C6: distinct BUY fills on a position that started empty leave realized
\* P&L alone, make the quantity the sum of the sizes, and the cost basis the
\* non-negative average (sum of size*price + sum of fees) / sum of sizes.
C6_BuysAverage ==
    \A c \in Coins :
       (/\ opening[c] = 0
        /\ \A f \in AppliedTo(c) : f.side = "BUY" /\ applied[f] = 1)
       => /\ realized_pnl = R(0)
          /\ positions[c] = SumSize(AppliedTo(c))
          /\ RLe(R(0), cost_basis[c])
          /\ AppliedTo(c) # {} =>
                cost_basis[c] = Norm(SumCost(AppliedTo(c)), SumSize(AppliedTo(c)))

\* BUY 1 @ 100 fee 1 then BUY 2 @ 110 fee 2: quantity 3, cost basis 323/3.
C6_Witness ==
    /\ opening["ETH-USD"] = 0
    /\ applied[F1] = 1 /\ applied[F3] = 1 /\ applied[F2] = 0
    /\ positions["ETH-USD"] = 3
    /\ cost_basis["ETH-USD"] = <<323, 3>>

\* C8: evaluate_signal hands BUY or SELL to the gates only when the pending
\* counter (this candle counted) has reached confirm_candles and the
\* direction differs from the last confirmed one; when it does, the counter
\* is back at 0 and the last confirmed direction is the one handed on.
C8_FiresOnlyConfirmedChange ==
    [][(ev'.tick # ev.tick /\ ev'.signal # 0) =>
          LET c == ev'.coin
              sig == ev'.signal
              counted == IF pending[c].rel = sig
                         THEN Min(pending[c].count + 1, CountCap) ELSE 1
          IN  /\ sig = ev'.rel
              /\ counted >= confirm_candles
              /\ sig # trend[c]
              /\ pending'[c].count = 0
              /\ trend'[c] = sig]_vars

\* A BUY handed on after three confirming candles.
C8_Witness ==
    /\ ev.signal = 1
    /\ confirm_candles = 3
    /\ trend["ETH-USD"] = 1
    /\ pending["ETH-USD"] = ZeroPending
    /\ run.n = 3 /\ run.fresh /\ run.buy
    /\ cpc = "place" /\ cctx.side = "BUY"

\* C9 as stated: for a primed product, a Below evaluation that follows
\* exactly confirm_candles - 1 consecutive Above evaluations finds that none
\* of them produced a BUY, produces none itself, and leaves the pending
\* state at direction below, count 1.
C9_ShortRunAsStated ==
    [][(/\ ev'.tick # ev.tick /\ ev'.rel = -1
        /\ primed[ev'.coin] /\ ~stop_requested
        /\ run.n = confirm_candles - 1)
          => /\ ~run.buy
             /\ ev'.signal # 1
             /\ pending'[ev'.coin] = [rel |-> -1, count |-> 1, band_grace |-> 0]]_vars

\* C9 amended: the same, for confirm_candles >= 2 held fixed through the
\* run, and a run that began with no Above count already pending.
C9_ShortFreshRun ==
    [][(/\ ev'.tick # ev.tick /\ ev'.rel = -1
        /\ primed[ev'.coin] /\ ~stop_requested
        /\ confirm_candles >= 2
        /\ run.n = confirm_candles - 1 /\ run.fresh /\ run.steady)
          => /\ ~run.buy
             /\ ev'.signal # 1
             /\ pending'[ev'.coin] = [rel |-> -1, count |-> 1, band_grace |-> 0]]_vars

\* Two Above evaluations under confirm_candles = 3, then Below.
C9_Witness ==
    /\ confirm_candles = 3
    /\ run.ended = 2
    /\ ev.rel = -1 /\ ev.signal = 0
    /\ pending["ETH-USD"] = [rel |-> -1, count |-> 1, band_grace |-> 0]

\* C10: the first evaluate_signal call for a product records rel as the
\* trend and marks the product primed (a call made after shutdown was
\* requested returns before that and records nothing); either way it hands
\* nothing to the gates, enters neither place_order nor a sweep, and leaves
\* the pending counter as it was, whatever confirm_candles is.
C10_FirstCallOnlyPrimes ==
    [][(ev'.tick # ev.tick /\ ~primed[ev'.coin]) =>
          LET c == ev'.coin
          IN  /\ IF stop_requested
                 THEN ~primed'[c] /\ trend'[c] = trend[c]
                 ELSE primed'[c] /\ trend'[c] = ev'.rel
              /\ pending'[c] = pending[c]
              /\ ev'.signal = 0
              /\ cpc' = "idle" /\ rpc' = rpc
              /\ UNCHANGED <<intent, submitted, spend, last_trade>>]_vars

\* The first call under confirm_candles = 1, with the short EMA above.
C10_Witness ==
    /\ confirm_candles = 1
    /\ primed["ETH-USD"]
    /\ ev.tick = 1 /\ ev.rel = 1 /\ ev.signal = 0
    /\ trend["ETH-USD"] = 1
    /\ pending["ETH-USD"] = ZeroPending
    /\ intent = {} /\ cpc = "idle"

\* C3: in every reachable state each quantity is >= 0 and the cost basis
\* is 0 whenever the quantity is 0.
C3_FlatHasNoBasis ==
    \A c \in Coins :
       /\ positions[c] >= 0
       /\ positions[c] = 0 => cost_basis[c] = R(0)

\* C4 as stated: a step that ingests no fill leaves positions and cost
\* basis as they are.
C4_OnlyIngestionWrites ==
    [][applied' = applied =>
          /\ positions' = positions
          /\ cost_basis' = cost_basis]_vars

\* C4 amended: a step that ingests no fill leaves the cost basis as it is,
\* and leaves each quantity as it is unless the cached quantity is not
\* positive and the live balance is: then the quantity becomes the live
\* balance.
C4_IngestionOrLiveSeed ==
    [][applied' = applied =>
          /\ cost_basis' = cost_basis
          /\ \A c \in Coins :
                \/ positions'[c] = positions[c]
                \/ /\ positions[c] <= 0 /\ live[c] > 0
                   /\ positions'[c] = live[c]]_vars

\* A candle close has seeded an empty position from the live balance; no
\* fill was ever ingested.
C4_Witness ==
    /\ opening["ETH-USD"] = 0
    /\ \A f \in Fills : applied[f] = 0
    /\ ticks["ETH-USD"] >= 1
    /\ positions["ETH-USD"] = MaxLive
    /\ cost_basis["ETH-USD"] = R(0)

\* C7: for each instrument the bar starts handed to _on_candle_close, by
\* whichever producer, never go back in time and never repeat.
C7_ClosesInOrder ==
    \A c \in Coins : \A i, j \in DOMAIN closes[c] :
       i < j => closes[c][i] < closes[c][j]

\* C11: an in-band evaluation of a primed product hands nothing on and
\* leaves the trend alone.  In local mode, when the evaluation before it was
\* directional and left a count pending, it keeps direction and count and
\* uses up the grace; in every other case (a second in-band evaluation in a
\* row, nothing pending, or the native stream) the pending state is reset.
C11_InBandResets ==
    [][(/\ ev'.tick # ev.tick /\ ev'.rel = 0
        /\ primed[ev'.coin] /\ ~stop_requested) =>
          LET c == ev'.coin
          IN  /\ ev'.signal = 0 /\ trend'[c] = trend[c]
              /\ IF candle_mode = "local" /\ ev.rel # 0 /\ pending[c].count > 0
                 THEN /\ pending[c].band_grace = 0
                      /\ pending'[c] = [pending[c] EXCEPT !.band_grace = 1]
                 ELSE pending'[c] = ZeroPending]_vars

\* In local mode an in-band candle has kept a count of two.
C11_Witness ==
    /\ candle_mode = "local"
    /\ ev.rel = 0
    /\ pending["ETH-USD"].count = 2
    /\ pending["ETH-USD"].band_grace = 1

\* C12 as stated: a fired SELL that has passed the cooldown and the
\* held-position gate, with the close at or below the hard-stop floor of a
\* positive cost basis, ends in a market SELL with reason stop_loss.
C12_HardStopAsStated ==
    [][(/\ cpc = "gate" /\ cpc' # "gate"
        /\ Max(positions[cctx.coin], live[cctx.coin]) > 0
        /\ cost_basis[cctx.coin][1] > 0
        /\ cctx.price * 10000 * cost_basis[cctx.coin][2]
              <= cost_basis[cctx.coin][1] * (10000 - hard_stop_bps))
          => /\ cpc' = "place"
             /\ cctx'.side = "SELL" /\ cctx'.reason = "stop_loss"
             /\ ~UseMaker(cctx'.side, cctx'.reason)]_vars

\* C12 amended: under the same conditions place_order is entered for a
\* market SELL with reason stop_loss over min(cached quantity, live
\* balance) when that is positive, and nothing is attempted when it is 0;
\* either way whatever the advisors say and whatever was spent today.
C12_HardStopWhenHeld ==
    [][(/\ cpc = "gate" /\ cpc' # "gate"
        /\ Max(positions[cctx.coin], live[cctx.coin]) > 0
        /\ cost_basis[cctx.coin][1] > 0
        /\ cctx.price * 10000 * cost_basis[cctx.coin][2]
              <= cost_basis[cctx.coin][1] * (10000 - hard_stop_bps))
          => LET c == cctx.coin
                 held == Min(Max(0, positions[c]), live[c])
             IN  IF held > 0
                 THEN /\ cpc' = "place"
                      /\ cctx'.side = "SELL" /\ cctx'.reason = "stop_loss"
                      /\ cctx'.quote = held * cctx.price
                      /\ ~UseMaker(cctx'.side, cctx'.reason)
                 ELSE cpc' = "idle"]_vars

\* A stop-loss SELL entered although the advisors would have vetoed it.
C12_Witness ==
    /\ cpc = "place"
    /\ cctx.side = "SELL" /\ cctx.reason = "stop_loss"
    /\ ~cctx.allow

\* C13: a fired BUY (the trend turns to above) enters place_order only
\* while today's spend is below the cap, and then with the notional
\* min(usd_per_order, cap - spend); a fired SELL that reaches the last gate
\* (position held, no hard stop, no advisor veto) enters place_order with
\* the full usd_per_order whatever was spent.
C13_CapGatesOnlyBuys ==
    [][/\ \A c \in Coins :
            (primed[c] /\ trend[c] # 1 /\ trend'[c] = 1) =>
               LET remaining == Max(0, daily_spend_cap_usd - spend)
               IN  /\ remaining <= 0 => cpc' = "idle"
                   /\ cpc' = "place" =>
                         /\ cctx'.side = "BUY" /\ cctx'.reason = "ema_cross"
                         /\ cctx'.quote = Min(usd_per_order, remaining)
       /\ (/\ cpc = "gate" /\ cpc' # "gate"
           /\ Max(positions[cctx.coin], live[cctx.coin]) > 0
           /\ ~HardStopHit(cost_basis[cctx.coin], cctx.price)
           /\ cctx.allow \/ ~enable_advisors)
             => /\ cpc' = "place"
                /\ cctx'.side = "SELL" /\ cctx'.reason = "ema_cross"
                /\ cctx'.quote = usd_per_order]_vars

\* A BUY cut down to what is left of the cap.
C13_Witness ==
    /\ cpc = "place" /\ cctx.side = "BUY"
    /\ spend = daily_spend_cap_usd - usd_per_order \div 2
    /\ cctx.quote = usd_per_order \div 2

ProfitAtLeast(a, bps) ==
    IF a.entry_price > 0 /\ a.last_price > 0
    THEN (a.last_price - a.entry_price) * 10000 >= bps * a.entry_price
    ELSE 0 >= bps

\* |profitBps| < bps.
AbsProfitBelow(a, bps) ==
    IF a.entry_price > 0 /\ a.last_price > 0
    THEN Abs(a.last_price - a.entry_price) * 10000 < bps * a.entry_price
    ELSE 0 < bps

ProdCmp(a, b, c, d) == BCmp(BMul(BN(a), BN(b)), BMul(BN(c), BN(d)))

\* The exact raw price of a call, times 10^8: reference * (1 -+ offset).
RawFactor(a) ==
    IF a.side = "BUY" THEN 10000 - a.offset_bps ELSE 10000 + a.offset_bps
RefOf(a) == MakerRef(a.side, a.last_price, a.bid, a.ask)

\* steps * inc <= raw and raw < (steps + 1) * inc
IsFloorOfRaw(a, steps) ==
    /\ ProdCmp(steps * a.price_inc, 10000, RefOf(a), RawFactor(a)) <= 0
    /\ ProdCmp((steps + 1) * a.price_inc, 10000, RefOf(a), RawFactor(a)) > 0
\* steps * inc >= raw and (steps - 1) * inc < raw
IsCeilOfRaw(a, steps) ==
    /\ ProdCmp(steps * a.price_inc, 10000, RefOf(a), RawFactor(a)) >= 0
    /\ steps > 0
    /\ ProdCmp((steps - 1) * a.price_inc, 10000, RefOf(a), RawFactor(a)) < 0

\* C17: compute_maker_limit returns, for a BUY, the largest multiple of the
\* price increment that is at most reference * (1 - offset) and, for a SELL,
\* the smallest multiple that is at least reference * (1 + offset), where
\* the reference is the bid (BUY) or ask (SELL) when present and positive
\* and the last price otherwise.
C17_MakerLimitAsStated ==
    res.f = "maker" =>
        IF res.a.side = "BUY"
        THEN IsFloorOfRaw(res.a, res.out.steps)
        ELSE IsCeilOfRaw(res.a, res.out.steps)

C19_MarketSellAsStated ==
    res.f = "msell" =>
        IF res.out.sent
        THEN /\ res.out.steps > 0
             /\ res.out.steps <= Min(res.a.position, res.a.live_avail)
             /\ res.out.steps >= MinMarketUnits
        ELSE res.out.dust

\* The stated rule: no explicit failure, and a success indicator or an
\* order id.
StatedOk(r) ==
    /\ r.success # "false" /\ ~Truthy(r.error_response)
    /\ (Truthy(r.success_response) \/ Truthy(r.order_id) \/ r.success = "true")

\* C20: _resp_ok is true exactly when the answer carries no explicit
\* failure (success is not false, no error_response) and carries a
\* success_response, an order_id or success = true, so that an empty or
\* ambiguous answer is a failure; and after a failed submission place_order
\* fetches no fills and records no intent.
C20_RespOkAndFailure ==
    [][/\ \A r \in answers : _resp_ok(r) <=> StatedOk(r)
       /\ (cpc = "place" /\ cctx'.ok = "yes") => \E r \in answers : StatedOk(r)
       /\ (cpc = "place" /\ cctx'.ok = "no")
             => /\ \E r \in answers : ~StatedOk(r)
                /\ cpc' = "ret" /\ intent' = intent
                /\ UNCHANGED <<ledgerVars, spend, last_trade, submitted, exchange>>
       /\ cctx.ok = "no" => cpc = "ret" /\ cpc' = "idle" /\ intent' = intent]_vars

\* A submission was answered with nothing at all, and place_order is about
\* to return without an intent.
C20_Witness ==
    /\ answers = {[success |-> "absent", error_response |-> "absent",
                   success_response |-> "absent", order_id |-> "absent"]}
    /\ cpc = "ret" /\ cctx.ok = "no" /\ intent = {}

\* C21: the warm-up backfill feeds the historical closes only to the
\* indicators: the step leaves the primed set, the trend flag and the
\* pending-confirmation state of every instrument as they were, enters no
\* place_order call and submits no order.
C21_BackfillOnlySeeds ==
    [][(warmup = "due" /\ warmup' = "done")
          => /\ UNCHANGED <<primed, trend, pending>>
             /\ UNCHANGED <<intent, submitted, exchange, spend, last_trade>>
             /\ cpc' = "idle" /\ cctx' = NoCall]_vars

\* The backfill has fed enough candles to pass min_candles, and the signal
\* state machine of that instrument is still unprimed.
C21_Witness ==
    \E c \in Coins :
       /\ warmup = "done" /\ Len(seeded[c]) >= min_candles
       /\ ticks[c] = min_candles /\ closes[c] = <<>>
       /\ ~primed[c] /\ trend[c] = 0 /\ submitted = {}

\* C25: each closed candle of an instrument updates the indicators exactly
\* once, counting warm-up: a bar the backfill fed is not fed again by
\* _on_candle_close when the live pipeline later closes that bar.
C25_SeededNotFedAgain ==
    \A c \in Coins : \A i \in DOMAIN closes[c] : \A j \in DOMAIN seeded[c] :
       closes[c][i] # seeded[c][j]

\* C22: the processed-fill index is bounded: after the prune step that ends
\* an ingestion batch, of any size, the index holds at most
\* processed_fills_max fingerprints, and what the step removed are the
\* oldest-inserted fingerprints (the index left is a suffix of the old one).
C22_PruneBoundsIndex ==
    res.f = "prune"
       => /\ Len(res.idx) <= arg.max_keys
          /\ \E k \in 0..Len(res.before) :
                res.idx = SubSeq(res.before, k + 1, Len(res.before))

\* The steps of a shutdown as stated: the final bounded reconciliation
\* sweep, the session-summary write, the connection teardown.
StatedShutdown == <<"sweep", "summary", "teardown">>

\* C23: a shutdown request sets the single shutdown flag and then runs, in
\* this order and each at most once per run even when requested from
\* several threads or signals at once: a final bounded reconciliation
\* sweep, the session-summary write and the connection teardown.
C23_ShutdownRunsOnceInOrder ==
    /\ ran # <<>> => shutdown_once
    /\ Len(ran) <= Len(StatedShutdown)
    /\ ran = SubSeq(StatedShutdown, 1, Len(ran))
    /\ exited => ran = StatedShutdown

\* C24: no thread performs a blocking network call while it holds
\* _state_lock: the steps that submit an order (with the balance query of
\* the SELL sizing) or fetch fills neither start nor end with the lock held
\* by the thread that takes them, and the candle thread holds the lock in
\* the per-fill loop only.
C24_NoNetworkUnderLock ==
    [][/\ (cpc \in {"place", "fetch"} /\ cpc' # cpc)
             => lock # "candle" /\ lock' # "candle"
       /\ (rpc = "fetch" /\ rpc' # rpc)
             => lock # "reconcile" /\ lock' # "reconcile"
       /\ lock' = "candle" => cpc' = "ingest"]_vars

\* place_order holds the lock with a fill still to ingest while the sweep
\* of the other thread is at its fill fetch.
C24_Witness ==
    /\ lock = "candle" /\ cpc = "ingest" /\ cctx.page # <<>>
    /\ rpc = "fetch" /\ rctx.caller = "periodic"

\* C26: the candle-stall watchdog forces a hard reconnect only once
\* stall_hard_reconnect_after resubscribes, each at least the cooldown after
\* the one before, have been issued with no healthy check in between; a
\* healthy check resets the count to 0.
C26_HardReconnectAfterNResubscribes ==
    [][wd'.tick # wd.tick
          => /\ wd'.kind = "reconnected"
                   => wd'.resubs >= Max(1, stall_hard_reconnect_after)
             /\ wd'.kind \in {"resubscribed", "reconnected"}
                   => \/ last_stall_action_ts = 0
                      \/ now - last_stall_action_ts >= StallCooldown
             /\ wd'.kind = "healthy" => consecutive_stall_windows' = 0]_vars

\* C27: every change of the candle mode from ws to local sets the stall
\* grace of all products to a time still ahead, and a stall check reports
\* no product that is inside its grace window.
C27_FlipSetsGrace ==
    [][/\ (candle_mode = "ws" /\ candle_mode' = "local")
             => \A c \in coin_ids : stall_grace_until'[c] > now
       /\ wd'.tick # wd.tick
             => \A c \in wd'.stalled : ~(now < stall_grace_until[c])]_vars

\* C28: a reconnect is forced once the stream has been idle for
\* ws_idle_reconnect_s, and one idle episode causes one forced reconnect:
\* after an idle reconnect has restarted the idle timer, no context makes
\* another idle reconnect before the stream has again been idle that long.
C28_OneReconnectPerIdleEpisode ==
    [][idle_reconnects' # idle_reconnects
          => idle_rc_ts = 0 \/ now - idle_rc_ts >= IdleS]_vars


\* C29: the hard stop bypasses the per-instrument cooldown: a candle close
\* on which the SELL signal fires for a held position, at a close at or
\* below the hard-stop floor of a positive cost basis, goes on to the
\* stop_loss exit (through the pre-SELL sweep when that is on) even if the
\* instrument traded within the cooldown period.
C29_HardStopBypassesCooldown ==
    [][\A c \in Coins :
          (/\ primed[c] /\ trend[c] # -1 /\ trend'[c] = -1
           /\ Min(Max(0, positions[c]), live[c]) > 0)
             => \A p \in {q \in Prices : HardStopHit(cost_basis[c], q)} :
                \A ema \in EMAPairs : \A allow \in BOOLEAN :
                \A long_hold \in BOOLEAN : \A macd \in {"flat", "up", "down"} :
                   OnCandleCloseOf(c, p, ema, allow, long_hold, macd)
                      => cpc' \in {"wait", "place"}]_vars


\* The fields a queued close keeps from the queue to the handler.
Entry(h) == [release |-> h.release, pid |-> h.pid, start |-> h.start,
             tick |-> h.tick]

\* C30: every step hands on a head part of the settle queue, in order, and
\* leaves the rest waiting, so that a queued close reaches _on_candle_close
\* once; a close is released at tick time + settle delay and is handed on
\* by a message stamped at or after its release time; and when ticker
\* messages keep arriving no close whose release time the clock can reach
\* stays at the head of the queue (unless shutdown is requested), so that,
\* a close leaving the queue only by being handed on, each is handed on.
C30_SettledOnceOnTime ==
    /\ [][\E k \in 0..Len(settle_q) :
             /\ Len(handed') = Len(handed) + k
             /\ SubSeq(handed', 1, Len(handed)) = handed
             /\ \A i \in 1..k :
                   /\ Entry(handed'[Len(handed) + i]) = settle_q[i]
                   /\ handed'[Len(handed) + i].at >= settle_q[i].release
                   /\ handed'[Len(handed) + i].at <= now
             /\ Len(settle_q') >= Len(settle_q) - k
             /\ SubSeq(settle_q', 1, Len(settle_q) - k)
                   = SubSeq(settle_q, k + 1, Len(settle_q))
             /\ \A i \in (Len(settle_q) - k + 1)..Len(settle_q') :
                   /\ settle_q'[i].release = settle_q'[i].tick + SettleDelay
                   /\ settle_q'[i].tick <= now]_vars
    /\ []<>(\/ stop_requested
            \/ settle_q = <<>>
            \/ Head(settle_q).release > MaxClock)

\* Both products' closes were queued by one message and one waited past its
\* release time: handed on late, after a close released with it.
C30_Witness ==
    /\ Len(handed) >= 2
    /\ handed[1].pid # handed[2].pid
    /\ handed[1].tick = handed[2].tick
    /\ handed[2].at > handed[2].release
    /\ settle_q # <<>>

\* C31: at most one sweep started through reconcile_now is executing at
\* any time.
C31_OneSweepAtATime ==
    Cardinality({t \in ReconcileCallers : fpc[t] = "sweep"}) <= 1

C33_LocalIsFinal ==
    [][candle_mode = "local" =>
          /\ candle_mode' = "local"
          /\ (frame # <<>> /\ frame' = Tail(frame)) =>
                (closes' = closes /\ last_candle_start' = last_candle_start)]_vars

\* C34: a confirmed cross is attempted at most once.  A signal fires only
\* against a different recorded trend and the trend is the signal's direction
\* as soon as the evaluation returns, whatever the gates and the submission
\* do with it; an evaluation in the direction of the recorded trend fires
\* nothing; and the trend of a primed product changes at no other step, so
\* the same direction fires again only after a confirmed opposite cross.
C34_CrossFiresOnce ==
    [][\A c \in Coins :
          /\ (ev'.tick # ev.tick /\ ev'.coin = c /\ ev'.signal # 0)
                => (trend[c] # ev'.signal /\ trend'[c] = ev'.signal)
          /\ (ev'.tick # ev.tick /\ ev'.coin = c /\ primed[c]
                 /\ ev'.rel = trend[c])
                => ev'.signal = 0
          /\ (primed[c] /\ trend'[c] # trend[c])
                => (ev'.tick # ev.tick /\ ev'.coin = c
                       /\ ev'.signal = trend'[c])]_vars

C34_Witness ==
    /\ ev.signal # 0 /\ trend[ev.coin] = ev.signal
    /\ cpc = "idle" /\ last_trade[ev.coin] = 0 /\ intent = {}

\* C35: a live place_order whose submission fails or is skipped leaves the
\* daily spend, the last-trade stamp, the positions, the realized P&L and
\* the processed-fill index as they were, in the step that fails or skips
\* and in the return that follows; the daily spend changes only in a
\* successful BUY submission, by the order's notional.
C35_FailedSubmissionFrame ==
    [][/\ (cpc = "place" /\ cpc' # cpc /\ cctx'.ok # "yes")
             => UNCHANGED <<spend, last_trade, positions, cost_basis,
                            realized_pnl, processed>>
       /\ (cpc = "ret" /\ cpc' # cpc /\ cctx.ok # "yes")
             => /\ cpc' = "idle"
                /\ UNCHANGED <<spend, last_trade, positions, cost_basis,
                               realized_pnl, processed>>
       /\ spend' # spend
             => /\ cpc = "place" /\ cctx.side = "BUY" /\ cctx'.ok = "yes"
                /\ spend' = spend + cctx.quote]_vars

\* A BUY was recorded earlier and the submission after it has failed.
C35_Witness ==
    /\ cpc = "ret" /\ cctx.ok = "no"
    /\ spend = usd_per_order /\ last_trade[cctx.coin] # 0

\* C36: when the live-balance lookup fails at startup (get_accounts raises
\* and the account cache holds nothing), the loaded position is left as it
\* was; the startup clamp lowers a position only to a balance the exchange
\* reported.
C36_FailedLookupKeepsPosition ==
    res.f = "boot" =>
        /\ res.a.answer.kind = "error" => res.out = res.a.position
        /\ res.out < res.a.position
              => (res.a.answer.kind = "balance" /\ res.out = res.a.answer.avail)

\* C37: in every reachable state of a live run today's recorded BUY spend is
\* at most daily_spend_cap_usd, also when candle closes of different
\* products are handled concurrently.
C37_SpendWithinCap == spend <= daily_spend_cap_usd

\* C38: at every point where the process may stop, each fingerprint in the
\* persisted index belongs to a fill whose effect is in the persisted
\* ledger.
C38_IndexWithinSavedLedger ==
    \A f \in Fills :
       Has(processed, _fill_fingerprint(f))
          => saved.applied[f] + (IF f \in prior THEN 1 ELSE 0) >= 1

\* C39: once stop_requested is set no new order is submitted: no step taken
\* with the flag set enters place_order.
C39_NoOrderAfterStop ==
    [][(stop_requested /\ cpc # "place") => cpc' # "place"]_vars

\* C40: on a candle where the Quartermaster's exit condition holds for the
\* held position but no order is entered (dust suppression, per-product
\* cooldown, Quartermaster rate limit), evaluate_signal is not run: primed,
\* trend and pending are unchanged and no sweep or order is started, while
\* the candle is counted.
C40_SuppressedExitSkipsSignal ==
    [][\A c \in Coins :
          (/\ cpc = "idle" /\ Held(c)
           /\ now' = now /\ live' = live /\ exchange' = exchange)
             => \/ /\ UNCHANGED <<primed, trend, pending>>
                   /\ cpc' = "idle" /\ rpc' = rpc
                   /\ ticks'[c] = Min(ticks[c] + 1, min_candles)
                \/ \A p \in Prices : \A long_hold \in BOOLEAN :
                   \A macd \in {"flat", "up", "down"} :
                      Quartermaster(c, p, long_hold, macd).act = "return"
                         => \A ema \in EMAPairs : \A allow \in BOOLEAN :
                               ~OnCandleCloseOf(c, p, ema, allow, long_hold, macd)]_vars

\* Enough candles were counted for evaluate_signal, no Quartermaster order
\* was ever entered, the dust window is running, and the product is still
\* unprimed.
C40_Witness ==
    /\ cpc = "idle" /\ ticks["ETH-USD"] >= min_candles
    /\ ~primed["ETH-USD"] /\ qm_last_ts["ETH-USD"] = 0
    /\ qm_dust_until["ETH-USD"] > now

====
